---- MODULE Spec2Model ----
(***************************************************************************)
(* Saga orchestrator of the stablecoin exchange: PaymentWorkflow drives    *)
(* the legs Funding -> Minting -> Offramp through Temporal activities that *)
(* write payment, leg and fee rows to PostgreSQL.                          *)
(*                                                                         *)
(* Decimal numbers are kept in thousandths (100 USD = 100000).             *)
(***************************************************************************)
EXTENDS Integers, Sequences, FiniteSets, TLC

(* ----------------------------------------------------------------------- *)
(* Bounds of the exploration                                               *)
(* ----------------------------------------------------------------------- *)

\* activity attempts of one saga the scheduler may abandon and deliver again
MaxFaults == 2

\* cancellation signals the HTTP surface may send to one saga
MaxSignals == 2

(* ----------------------------------------------------------------------- *)
(* Inputs                                                                  *)
(* ----------------------------------------------------------------------- *)

Decimal(units, thousandths) == units * 1000 + thousandths

\* x * y of two amounts in thousandths, computed without leaving 32 bits
times(x, y) == (x \div 1000) * y + ((x % 1000) * y) \div 1000

\* payment identifiers callers supply, as the pieces of the identifier string
SuppliedIds == { <<"payment", "1">>, <<"fail-mint", "2">> }

\* readings of Date.now(), as they are printed into an identifier
Clock == { "1", "2" }

\* `payment-${Date.now()}`
GeneratedId(now) == << "payment", now >>

\* every payment identifier a request can end up with
PaymentIds == SuppliedIds \cup { GeneratedId(now) : now \in Clock }

\* a request body without paymentId, or with the empty string
NoId == << >>

\* a request body whose amountUsd is absent or not of type number
NotANumber == -1

Amounts == { Decimal(100, 0) }

\* MXN is seeded in fx_rates, ABX is not
Currencies == { "MXN", "ABX" }

NoReason == "undefined"

Reasons == { NoReason, "test-cancel" }

\* absent value (null / undefined / no row)
NULL == [ null |-> TRUE ]

\* String.prototype.includes on an identifier
includes(id, marker) == \E i \in DOMAIN id : id[i] = marker

Legs == { "FUNDING", "MINTING", "OFFRAMP" }

Activities ==
    { "createPayment", "updatePaymentStatus", "createFunding", "mintUsdc",
      "offramp", "compensateFunding" }

Stages ==
    { "NONE", "STARTING", "CREATING_PAYMENT", "FUNDING_STARTING", "FUNDING_RUNNING",
      "FAILED_FUNDING", "CANCELLED_AFTER_FUNDING", "MINTING_STARTING",
      "MINTING_RUNNING", "FAILED_MINTING", "OFFRAMP_STARTING", "OFFRAMP_RUNNING",
      "FAILED_OFFRAMP", "COMPLETED" }

(* ----------------------------------------------------------------------- *)
(* State                                                                   *)
(* ----------------------------------------------------------------------- *)

VARIABLES
    \* PostgreSQL tables
    payments,        \* payment id -> row, or NULL when there is no row
    funding,         \* set of funding rows
    minting,         \* set of minting rows
    offramp,         \* set of offramp rows
    fees,            \* set of fee rows
    fx_rates,        \* set of rate rows
    importer,        \* the run of the rate import script and its open transaction
    nextId,          \* per payment, the count of identifiers nanoid() handed out
    \* PaymentWorkflow, one per payment
    input,           \* the workflow's argument, NULL before the request
    pc,              \* the await the workflow is suspended at
    stage,
    cancelRequested,
    cancelReason,
    fundingResult,
    mintingResult,
    offrampResult,
    result,          \* the string the workflow returned, NULL while it runs
    \* what the Temporal service keeps of each workflow
    history,         \* the events delivered to the workflow code, in order
    crashes,         \* per payment, the worker crashes so far
    queryReply,      \* the last answer of paymentStatusQuery, NULL before any
    \* Express server
    response,        \* the last HTTP response sent, NULL before any
    requests,        \* the POST /payments requests answered 202, in order
    \* activity invocations of each workflow
    apos,            \* position of the current attempt of each activity
    aarg,            \* argument the activity was scheduled with
    ares,            \* value the last finished attempt returned
    lastError,       \* error thrown by the last failed attempt
    \* history
    bodyRuns,        \* how often each activity body ran up to its first write
    orphans,         \* leg writes whose attempt was abandoned before its fee write
    signalledAt,     \* stages at which a cancellation signal was handled
    signalledBeforeMinted, \* a signal was handled before the Minting leg completed
    faults,          \* per payment, the attempts abandoned so far
    signals          \* per payment, the cancellation signals sent so far

\* the rate table and the session that imports it
rateVars == << fx_rates, importer >>

dbVars == << payments, funding, minting, offramp, fees, rateVars, nextId >>

wfVars ==
    << input, pc, stage, cancelRequested, cancelReason, fundingResult,
       mintingResult, offrampResult, result >>

actVars == << apos, aarg, ares, lastError >>

histVars == << bodyRuns, orphans, signalledAt, signalledBeforeMinted, faults, signals >>

apiVars == << response, requests >>

svcVars == << history, crashes, queryReply, apiVars >>

vars == << dbVars, wfVars, svcVars, actVars, histVars >>

(* ----------------------------------------------------------------------- *)
(* Persistence store                                                       *)
(* ----------------------------------------------------------------------- *)

\* a value stored in a NUMERIC(18, 2) column: rounded to hundredths, half away
\* from zero (the NUMERIC(18, 6) columns hold every value of the model as is)
numeric2(x) == ((x + 5) \div 10) * 10

\* getFxRate: the rate row of (base, quote), or NULL
getFxRate(base, quote) ==
    LET rows == { r \in fx_rates : r.base_currency = base /\ r.quote_currency = quote }
    IN  IF rows = {} THEN NULL ELSE [ rate |-> (CHOOSE r \in rows : TRUE).rate ]

\* createFundingRecord: INSERT INTO funding
createFundingRecord(params) ==
    funding' = funding \cup
        { [ id |-> params.id, payment_id |-> params.paymentId,
            usd_amount |-> numeric2(params.usdAmount), status |-> params.status ] }

\* createMintingRecord: INSERT INTO minting
createMintingRecord(params) ==
    minting' = minting \cup
        { [ id |-> params.id, payment_id |-> params.paymentId,
            usd_amount |-> numeric2(params.usdAmount), usdc_amount |-> params.usdcAmount,
            usdc_rate |-> params.usdcRate, status |-> params.status ] }

\* createOfframpRecord: INSERT INTO offramp
createOfframpRecord(params) ==
    offramp' = offramp \cup
        { [ id |-> params.id, payment_id |-> params.paymentId,
            usdc_amount |-> params.usdcAmount,
            local_amount |-> numeric2(params.localAmount),
            fx_rate |-> params.fxRate, recipient |-> params.recipient,
            status |-> params.status ] }

\* createFeeRecord: INSERT INTO fees
createFeeRecord(params) ==
    fees' = fees \cup
        { [ id |-> params.id, payment_id |-> params.paymentId, leg |-> params.leg,
            amount |-> params.amount, currency |-> params.currency ] }

\* updateFundingStatus: UPDATE funding SET status WHERE id; the rows it matched
fundingRowsById(id) == { r \in funding : r.id = id }

updateFundingStatus(params) ==
    funding' = { IF r.id = params.id THEN [ r EXCEPT !.status = params.status ] ELSE r
                 : r \in funding }

\* createPayment: INSERT INTO payments (id is the primary key)
createPayment(params) ==
    payments' = [ payments EXCEPT ![params.id] =
        [ usd_amount |-> numeric2(params.usdAmount),
          destination_currency |-> params.destinationCurrency,
          status |-> params.status ] ]

\* updatePaymentStatus: UPDATE payments SET status WHERE id
updatePaymentStatus(params) ==
    payments' = [ payments EXCEPT ![params.id].status = params.status ]

(* ----------------------------------------------------------------------- *)
(* Initial state: empty tables but for the seeded rate, no workflow        *)
(* ----------------------------------------------------------------------- *)

\* the import script is not running
NotImporting ==
    [ pc |-> "idle", data |-> << >>, todo |-> << >>, table |-> {}, exitCode |-> 0 ]

InitWith(rates) ==
    /\ payments = [ p \in PaymentIds |-> NULL ]
    /\ funding = {}
    /\ minting = {}
    /\ offramp = {}
    /\ fees = {}
    /\ fx_rates = rates
    /\ importer = NotImporting
    /\ nextId = [ p \in PaymentIds |-> 1 ]
    /\ input = [ p \in PaymentIds |-> NULL ]
    /\ pc = [ p \in PaymentIds |-> "none" ]
    /\ stage = [ p \in PaymentIds |-> "NONE" ]
    /\ cancelRequested = [ p \in PaymentIds |-> FALSE ]
    /\ cancelReason = [ p \in PaymentIds |-> NoReason ]
    /\ fundingResult = [ p \in PaymentIds |-> NULL ]
    /\ mintingResult = [ p \in PaymentIds |-> NULL ]
    /\ offrampResult = [ p \in PaymentIds |-> NULL ]
    /\ result = [ p \in PaymentIds |-> NULL ]
    /\ history = [ p \in PaymentIds |-> << >> ]
    /\ crashes = [ p \in PaymentIds |-> 0 ]
    /\ queryReply = [ p \in PaymentIds |-> NULL ]
    /\ response = NULL
    /\ requests = << >>
    /\ apos = [ p \in PaymentIds |-> [ a \in Activities |-> "none" ] ]
    /\ aarg = [ p \in PaymentIds |-> [ a \in Activities |-> NULL ] ]
    /\ ares = [ p \in PaymentIds |-> [ a \in Activities |-> NULL ] ]
    /\ lastError = [ p \in PaymentIds |-> "none" ]
    /\ bodyRuns = [ p \in PaymentIds |-> [ a \in Activities |-> 0 ] ]
    /\ orphans = [ p \in PaymentIds |-> [ l \in Legs |-> 0 ] ]
    /\ signalledAt = [ p \in PaymentIds |-> {} ]
    /\ signalledBeforeMinted = [ p \in PaymentIds |-> FALSE ]
    /\ faults = [ p \in PaymentIds |-> 0 ]
    /\ signals = [ p \in PaymentIds |-> 0 ]

\* the tables after schema.sql and the rate import: MXN has a rate, ABX none
Init ==
    InitWith({ [ base_currency |-> "USD", quote_currency |-> "MXN",
                 rate |-> Decimal(18, 344), as_of |-> << 2025, 9, 30 >> ] })

(* ----------------------------------------------------------------------- *)
(* Scheduler bookkeeping                                                   *)
(* ----------------------------------------------------------------------- *)

\* nanoid(): an identifier never handed out before
nanoid(p, k) == << p, nextId[p] + k >>

\* the activity the workflow of p is awaiting at its current await
Awaited(p) ==
    CASE pc[p] = "createPayment" -> "createPayment"
      [] pc[p] \in { "markInProgress", "failFunding", "cancelled", "failMint",
                     "failOfframp", "complete" } -> "updatePaymentStatus"
      [] pc[p] \in { "startFunding", "funding" } -> "createFunding"
      [] pc[p] \in { "startMint", "mint" } -> "mintUsdc"
      [] pc[p] \in { "startOfframp", "offramp" } -> "offramp"
      [] pc[p] \in { "compensateMint", "compensateOfframp" } -> "compensateFunding"
      [] OTHER -> "none"

\* proxyActivities / startChild: hand an invocation to the scheduler
Schedule(p, a, arg) ==
    /\ apos' = [ apos EXCEPT ![p][a] = "sched" ]
    /\ aarg' = [ aarg EXCEPT ![p][a] = arg ]
    /\ UNCHANGED << ares, lastError >>

\* an attempt of activity a of p may run now
Runnable(p, a, at) == Awaited(p) = a /\ apos[p][a] = at

\* the attempt finished and reported v
Finish(p, a, v) ==
    /\ apos' = [ apos EXCEPT ![p][a] = "done" ]
    /\ ares' = [ ares EXCEPT ![p][a] = v ]
    /\ lastError' = [ lastError EXCEPT ![p] = "none" ]
    /\ UNCHANGED aarg

\* the attempt threw: the scheduler will deliver the invocation again
Throw(p, a, e) ==
    /\ lastError' = [ lastError EXCEPT ![p] = e ]
    /\ UNCHANGED << apos, aarg, ares >>

Entered(p, a) == bodyRuns' = [ bodyRuns EXCEPT ![p][a] = @ + 1 ]

(* ----------------------------------------------------------------------- *)
(* Activities                                                              *)
(* ----------------------------------------------------------------------- *)

\* variant: the insert overwrites a row that is already there
createPaymentActivity_upsert(p) ==
    /\ Runnable(p, "createPayment", "sched")
    /\ createPayment(aarg[p]["createPayment"])
    /\ Entered(p, "createPayment")
    /\ Finish(p, "createPayment", NULL)
    /\ UNCHANGED << funding, minting, offramp, fees, rateVars, nextId >>
    /\ UNCHANGED << wfVars, svcVars, orphans, signalledAt, signalledBeforeMinted, faults, signals >>

\* createPaymentActivity: insert the payment row
createPaymentActivity(p) ==
    /\ Runnable(p, "createPayment", "sched")
    /\ IF payments[p] = NULL
       THEN /\ createPayment(aarg[p]["createPayment"])
            /\ Entered(p, "createPayment")
            /\ Finish(p, "createPayment", NULL)
       ELSE /\ UNCHANGED payments
            /\ UNCHANGED bodyRuns
            /\ Throw(p, "createPayment", "duplicate key")
    /\ UNCHANGED << funding, minting, offramp, fees, rateVars, nextId >>
    /\ UNCHANGED << wfVars, svcVars, orphans, signalledAt, signalledBeforeMinted, faults, signals >>

\* variant: an update that matches no row returns as if it had been made
updatePaymentStatusActivity_silent(p) ==
    /\ Runnable(p, "updatePaymentStatus", "sched")
    /\ IF payments[aarg[p]["updatePaymentStatus"].id] # NULL
       THEN updatePaymentStatus(aarg[p]["updatePaymentStatus"])
       ELSE UNCHANGED payments
    /\ Entered(p, "updatePaymentStatus")
    /\ Finish(p, "updatePaymentStatus", NULL)
    /\ UNCHANGED << funding, minting, offramp, fees, rateVars, nextId >>
    /\ UNCHANGED << wfVars, svcVars, orphans, signalledAt, signalledBeforeMinted, faults, signals >>

\* updatePaymentStatusActivity: set the status of the payment row
updatePaymentStatusActivity(p) ==
    /\ Runnable(p, "updatePaymentStatus", "sched")
    /\ IF payments[aarg[p]["updatePaymentStatus"].id] # NULL
       THEN /\ updatePaymentStatus(aarg[p]["updatePaymentStatus"])
            /\ Entered(p, "updatePaymentStatus")
            /\ Finish(p, "updatePaymentStatus", NULL)
       ELSE /\ UNCHANGED payments
            /\ UNCHANGED bodyRuns
            /\ Throw(p, "updatePaymentStatus", "Payment not found")
    /\ UNCHANGED << funding, minting, offramp, fees, rateVars, nextId >>
    /\ UNCHANGED << wfVars, svcVars, orphans, signalledAt, signalledBeforeMinted, faults, signals >>

\* variant: funding fails for identifiers that carry a failure marker
createFundingActivity_record_marker(p) ==
    /\ Runnable(p, "createFunding", "sched")
    /\ Entered(p, "createFunding")
    /\ LET params == aarg[p]["createFunding"]
           fundingId == nanoid(p, 0)
           status == IF includes(params.paymentId, "fail-mint") THEN "FAILED"
                                                                ELSE "COMPLETED"
       IN  /\ createFundingRecord([ id |-> fundingId, paymentId |-> params.paymentId,
                                    usdAmount |-> params.amountUsd, status |-> status ])
           /\ apos' = [ apos EXCEPT ![p]["createFunding"] =
                            IF status = "COMPLETED" THEN "leg" ELSE "done" ]
           /\ ares' = [ ares EXCEPT ![p]["createFunding"] =
                            [ status |-> status, fundingId |-> fundingId ] ]
    /\ nextId' = [ nextId EXCEPT ![p] = @ + 1 ]
    /\ UNCHANGED << payments, minting, offramp, fees, rateVars, aarg, lastError >>
    /\ UNCHANGED << wfVars, svcVars, orphans, signalledAt, signalledBeforeMinted, faults, signals >>

\* createFundingActivity, up to the insert of the funding row
createFundingActivity_record(p) ==
    /\ Runnable(p, "createFunding", "sched")
    /\ Entered(p, "createFunding")
    /\ LET params == aarg[p]["createFunding"]
           fundingId == nanoid(p, 0)
       IN  /\ createFundingRecord([ id |-> fundingId, paymentId |-> params.paymentId,
                                    usdAmount |-> params.amountUsd, status |-> "COMPLETED" ])
           /\ apos' = [ apos EXCEPT ![p]["createFunding"] = "leg" ]
           /\ ares' = [ ares EXCEPT ![p]["createFunding"] =
                            [ status |-> "COMPLETED", fundingId |-> fundingId ] ]
    /\ nextId' = [ nextId EXCEPT ![p] = @ + 1 ]
    /\ UNCHANGED << payments, minting, offramp, fees, rateVars, aarg, lastError >>
    /\ UNCHANGED << wfVars, svcVars, orphans, signalledAt, signalledBeforeMinted, faults, signals >>

\* createFundingActivity, from the insert of the fee row to the return
createFundingActivity_fee(p) ==
    /\ Runnable(p, "createFunding", "leg")
    /\ LET params == aarg[p]["createFunding"]
       IN  createFeeRecord([ id |-> nanoid(p, 0), paymentId |-> params.paymentId,
                             leg |-> "FUNDING", amount |-> Decimal(0, 300),
                             currency |-> "USD" ])
    /\ Finish(p, "createFunding", ares[p]["createFunding"])
    /\ nextId' = [ nextId EXCEPT ![p] = @ + 1 ]
    /\ UNCHANGED << payments, funding, minting, offramp, rateVars >>
    /\ UNCHANGED << wfVars, svcVars, histVars >>

\* variant: the fee row is written before the funding row
createFundingActivity_feeFirst(p) ==
    \/ /\ Runnable(p, "createFunding", "sched")
       /\ Entered(p, "createFunding")
       /\ createFeeRecord([ id |-> nanoid(p, 0),
                            paymentId |-> aarg[p]["createFunding"].paymentId,
                            leg |-> "FUNDING", amount |-> Decimal(0, 300),
                            currency |-> "USD" ])
       /\ apos' = [ apos EXCEPT ![p]["createFunding"] = "leg" ]
       /\ ares' = [ ares EXCEPT ![p]["createFunding"] =
                        [ status |-> "COMPLETED", fundingId |-> nanoid(p, 1) ] ]
       /\ nextId' = [ nextId EXCEPT ![p] = @ + 1 ]
       /\ UNCHANGED << payments, funding, minting, offramp, rateVars, aarg, lastError >>
       /\ UNCHANGED << wfVars, svcVars, orphans, signalledAt, signalledBeforeMinted, faults, signals >>
    \/ /\ Runnable(p, "createFunding", "leg")
       /\ createFundingRecord([ id |-> nanoid(p, 0),
                                paymentId |-> aarg[p]["createFunding"].paymentId,
                                usdAmount |-> aarg[p]["createFunding"].amountUsd,
                                status |-> "COMPLETED" ])
       /\ Finish(p, "createFunding", ares[p]["createFunding"])
       /\ nextId' = [ nextId EXCEPT ![p] = @ + 1 ]
       /\ UNCHANGED << payments, minting, offramp, fees, rateVars >>
       /\ UNCHANGED << wfVars, svcVars, histVars >>

createFundingActivity(p) == createFundingActivity_record(p) \/ createFundingActivity_fee(p)

\* compensateFundingActivity: mark the funding row COMPENSATED
\* variant: the refund is recorded as a failure of the funding
compensateFundingActivity_markFailed(p) ==
    /\ Runnable(p, "compensateFunding", "sched")
    /\ LET params == aarg[p]["compensateFunding"]
       IN  IF fundingRowsById(params.fundingId) # {}
           THEN /\ updateFundingStatus([ id |-> params.fundingId, status |-> "FAILED" ])
                /\ Entered(p, "compensateFunding")
                /\ Finish(p, "compensateFunding", NULL)
           ELSE /\ UNCHANGED funding
                /\ UNCHANGED bodyRuns
                /\ Throw(p, "compensateFunding", "Funding record not found")
    /\ UNCHANGED << payments, minting, offramp, fees, rateVars, nextId >>
    /\ UNCHANGED << wfVars, svcVars, orphans, signalledAt, signalledBeforeMinted, faults, signals >>

\* variant: the refund also takes back the funding fee
compensateFundingActivity_reverseFee(p) ==
    /\ Runnable(p, "compensateFunding", "sched")
    /\ LET params == aarg[p]["compensateFunding"]
       IN  IF fundingRowsById(params.fundingId) # {}
           THEN /\ updateFundingStatus([ id |-> params.fundingId, status |-> "COMPENSATED" ])
                /\ fees' = { f \in fees : ~(f.payment_id = p /\ f.leg = "FUNDING") }
                /\ Entered(p, "compensateFunding")
                /\ Finish(p, "compensateFunding", NULL)
           ELSE /\ UNCHANGED << funding, fees >>
                /\ UNCHANGED bodyRuns
                /\ Throw(p, "compensateFunding", "Funding record not found")
    /\ UNCHANGED << payments, minting, offramp, rateVars, nextId >>
    /\ UNCHANGED << wfVars, svcVars, orphans, signalledAt, signalledBeforeMinted, faults, signals >>

compensateFundingActivity(p) ==
    /\ Runnable(p, "compensateFunding", "sched")
    /\ LET params == aarg[p]["compensateFunding"]
       IN  IF fundingRowsById(params.fundingId) # {}
           THEN /\ updateFundingStatus([ id |-> params.fundingId, status |-> "COMPENSATED" ])
                /\ Entered(p, "compensateFunding")
                /\ Finish(p, "compensateFunding", NULL)
           ELSE /\ UNCHANGED funding
                /\ UNCHANGED bodyRuns
                /\ Throw(p, "compensateFunding", "Funding record not found")
    /\ UNCHANGED << payments, minting, offramp, fees, rateVars, nextId >>
    /\ UNCHANGED << wfVars, svcVars, orphans, signalledAt, signalledBeforeMinted, faults, signals >>

\* variant: the fee is charged whatever the status
mintUsdcActivity_record_alwaysFee(p) ==
    /\ Runnable(p, "mintUsdc", "sched")
    /\ Entered(p, "mintUsdc")
    /\ LET params == aarg[p]["mintUsdc"]
           willFail == includes(params.paymentId, "fail-mint")
           usdcRate == Decimal(1, 0)
           usdcAmount == IF willFail THEN 0 ELSE (params.amountUsd * usdcRate) \div Decimal(1, 0)
           status == IF willFail THEN "FAILED" ELSE "COMPLETED"
       IN  /\ createMintingRecord([ id |-> nanoid(p, 0), paymentId |-> params.paymentId,
                                    usdAmount |-> params.amountUsd,
                                    usdcAmount |-> usdcAmount, usdcRate |-> usdcRate,
                                    status |-> status ])
           /\ apos' = [ apos EXCEPT ![p]["mintUsdc"] = "leg" ]
           /\ ares' = [ ares EXCEPT ![p]["mintUsdc"] =
                            [ status |-> status, usdcAmount |-> usdcAmount,
                              usdcRate |-> usdcRate ] ]
    /\ nextId' = [ nextId EXCEPT ![p] = @ + 1 ]
    /\ UNCHANGED << payments, funding, offramp, fees, rateVars, aarg, lastError >>
    /\ UNCHANGED << wfVars, svcVars, orphans, signalledAt, signalledBeforeMinted, faults, signals >>

\* variant: the mint is made of the requested amount less the funding fee
mintUsdcActivity_record_net(p) ==
    /\ Runnable(p, "mintUsdc", "sched")
    /\ Entered(p, "mintUsdc")
    /\ LET params == aarg[p]["mintUsdc"]
           willFail == includes(params.paymentId, "fail-mint")
           usdcRate == Decimal(1, 0)
           net == params.amountUsd - Decimal(0, 300)
           usdcAmount == IF willFail THEN 0 ELSE (net * usdcRate) \div Decimal(1, 0)
           status == IF willFail THEN "FAILED" ELSE "COMPLETED"
           ret == [ status |-> status, usdcAmount |-> usdcAmount, usdcRate |-> usdcRate ]
       IN  /\ createMintingRecord([ id |-> nanoid(p, 0), paymentId |-> params.paymentId,
                                    usdAmount |-> net,
                                    usdcAmount |-> usdcAmount, usdcRate |-> usdcRate,
                                    status |-> status ])
           /\ apos' = [ apos EXCEPT ![p]["mintUsdc"] =
                            IF status = "COMPLETED" THEN "leg" ELSE "done" ]
           /\ ares' = [ ares EXCEPT ![p]["mintUsdc"] = ret ]
    /\ nextId' = [ nextId EXCEPT ![p] = @ + 1 ]
    /\ UNCHANGED << payments, funding, offramp, fees, rateVars, aarg, lastError >>
    /\ UNCHANGED << wfVars, svcVars, orphans, signalledAt, signalledBeforeMinted, faults, signals >>

\* mintUsdcActivity, up to the insert of the minting row (and the return of a
\* failed mint, which charges no fee)
mintUsdcActivity_record(p) ==
    /\ Runnable(p, "mintUsdc", "sched")
    /\ Entered(p, "mintUsdc")
    /\ LET params == aarg[p]["mintUsdc"]
           willFail == includes(params.paymentId, "fail-mint")
           usdcRate == Decimal(1, 0)
           usdcAmount == IF willFail THEN 0 ELSE (params.amountUsd * usdcRate) \div Decimal(1, 0)
           status == IF willFail THEN "FAILED" ELSE "COMPLETED"
           ret == [ status |-> status, usdcAmount |-> usdcAmount, usdcRate |-> usdcRate ]
       IN  /\ createMintingRecord([ id |-> nanoid(p, 0), paymentId |-> params.paymentId,
                                    usdAmount |-> params.amountUsd,
                                    usdcAmount |-> usdcAmount, usdcRate |-> usdcRate,
                                    status |-> status ])
           /\ apos' = [ apos EXCEPT ![p]["mintUsdc"] =
                            IF status = "COMPLETED" THEN "leg" ELSE "done" ]
           /\ ares' = [ ares EXCEPT ![p]["mintUsdc"] = ret ]
    /\ nextId' = [ nextId EXCEPT ![p] = @ + 1 ]
    /\ UNCHANGED << payments, funding, offramp, fees, rateVars, aarg, lastError >>
    /\ UNCHANGED << wfVars, svcVars, orphans, signalledAt, signalledBeforeMinted, faults, signals >>

\* mintUsdcActivity, the fee of a successful mint and the return
mintUsdcActivity_fee(p) ==
    /\ Runnable(p, "mintUsdc", "leg")
    /\ LET params == aarg[p]["mintUsdc"]
       IN  createFeeRecord([ id |-> nanoid(p, 0), paymentId |-> params.paymentId,
                             leg |-> "MINTING", amount |-> Decimal(0, 50),
                             currency |-> "USD" ])
    /\ Finish(p, "mintUsdc", ares[p]["mintUsdc"])
    /\ nextId' = [ nextId EXCEPT ![p] = @ + 1 ]
    /\ UNCHANGED << payments, funding, minting, offramp, rateVars >>
    /\ UNCHANGED << wfVars, svcVars, histVars >>

mintUsdcActivity(p) == mintUsdcActivity_record(p) \/ mintUsdcActivity_fee(p)

\* Number(x.toFixed(2)): round to hundredths, half away from zero
toFixed2(x) == ((x + 5) \div 10) * 10

\* offrampActivity, up to the insert of the offramp row (and the return when
\* there is no rate)
offrampActivity_record(p) ==
    /\ Runnable(p, "offramp", "sched")
    /\ Entered(p, "offramp")
    /\ LET params == aarg[p]["offramp"]
           fx == getFxRate("USD", params.destinationCurrency)
       IN  IF fx = NULL
           THEN /\ createOfframpRecord([ id |-> nanoid(p, 0), paymentId |-> params.paymentId,
                                         usdcAmount |-> params.usdcAmount, localAmount |-> 0,
                                         fxRate |-> 0, recipient |-> "unknown",
                                         status |-> "FAILED" ])
                /\ apos' = [ apos EXCEPT ![p]["offramp"] = "done" ]
                /\ ares' = [ ares EXCEPT ![p]["offramp"] =
                                 [ status |-> "FAILED", localAmount |-> 0, fxRate |-> 0 ] ]
           ELSE LET fxRate == fx.rate
                    localAmount == times(params.usdcAmount, fxRate)
                IN  /\ createOfframpRecord([ id |-> nanoid(p, 0),
                                             paymentId |-> params.paymentId,
                                             usdcAmount |-> params.usdcAmount,
                                             localAmount |-> localAmount,
                                             fxRate |-> fxRate,
                                             recipient |-> "demo-recipient",
                                             status |-> "COMPLETED" ])
                    /\ apos' = [ apos EXCEPT ![p]["offramp"] = "leg" ]
                    /\ ares' = [ ares EXCEPT ![p]["offramp"] =
                                     [ status |-> "COMPLETED", localAmount |-> localAmount,
                                       fxRate |-> fxRate ] ]
    /\ nextId' = [ nextId EXCEPT ![p] = @ + 1 ]
    /\ UNCHANGED << payments, funding, minting, fees, rateVars, aarg, lastError >>
    /\ UNCHANGED << wfVars, svcVars, orphans, signalledAt, signalledBeforeMinted, faults, signals >>

\* offrampActivity, the proportional fee of a successful offramp and the return
offrampActivity_fee(p) ==
    /\ Runnable(p, "offramp", "leg")
    /\ LET params == aarg[p]["offramp"]
           localAmount == ares[p]["offramp"].localAmount
           feeAmount == toFixed2((localAmount * 5) \div 1000)
       IN  createFeeRecord([ id |-> nanoid(p, 0), paymentId |-> params.paymentId,
                             leg |-> "OFFRAMP", amount |-> feeAmount,
                             currency |-> params.destinationCurrency ])
    /\ Finish(p, "offramp", ares[p]["offramp"])
    /\ nextId' = [ nextId EXCEPT ![p] = @ + 1 ]
    /\ UNCHANGED << payments, funding, minting, offramp, rateVars >>
    /\ UNCHANGED << wfVars, svcVars, histVars >>

offrampActivity(p) == offrampActivity_record(p) \/ offrampActivity_fee(p)

\* leg an activity writes, if any
LegOf(a) ==
    CASE a = "createFunding" -> "FUNDING"
      [] a = "mintUsdc" -> "MINTING"
      [] a = "offramp" -> "OFFRAMP"
      [] OTHER -> "none"

\* At-least-once delivery: the attempt in progress (or its report) is lost, by
\* a worker crash, a failed database call or the start-to-close timeout, and
\* the scheduler delivers the invocation again from the top of the body.
Redeliver(p) ==
    LET a == Awaited(p)
    IN  /\ a # "none"
        /\ apos[p][a] \in { "leg", "done" }
        /\ faults[p] < MaxFaults
        /\ faults' = [ faults EXCEPT ![p] = @ + 1 ]
        /\ apos' = [ apos EXCEPT ![p][a] = "sched" ]
        /\ orphans' = IF apos[p][a] = "leg"
                      THEN [ orphans EXCEPT ![p][LegOf(a)] = @ + 1 ]
                      ELSE orphans
        /\ UNCHANGED << aarg, ares, lastError >>
        /\ UNCHANGED << dbVars, wfVars, svcVars, bodyRuns, signalledAt, signalledBeforeMinted, signals >>

(* ----------------------------------------------------------------------- *)
(* The workflow's event history and its replay after a worker crash        *)
(* ----------------------------------------------------------------------- *)

\* rows of the rate file one import reads
MaxRows == 3

MaxCrashes == 1
MaxRequests == 2

\* the locals of PaymentWorkflow and the await it is suspended at
Memory(p) ==
    [ pc |-> pc[p], stage |-> stage[p], cancelRequested |-> cancelRequested[p],
      cancelReason |-> cancelReason[p], fundingResult |-> fundingResult[p],
      mintingResult |-> mintingResult[p], offrampResult |-> offrampResult[p],
      result |-> result[p] ]

\* the locals as PaymentWorkflow declares them on entry
InitialMemory ==
    [ pc |-> "start", stage |-> "STARTING", cancelRequested |-> FALSE,
      cancelReason |-> NoReason, fundingResult |-> NULL, mintingResult |-> NULL,
      offrampResult |-> NULL, result |-> NULL ]

\* the event a workflow task of p consumes now: the result of the awaited
\* activity, or the start of the workflow or of a child
LiveEvent(p) ==
    IF Awaited(p) # "none" /\ pc[p] \notin { "startFunding", "startMint", "startOfframp" }
    THEN [ type |-> "completed", value |-> ares[p][Awaited(p)], reason |-> NoReason ]
    ELSE [ type |-> "started", value |-> NULL, reason |-> NoReason ]

\* the service appends the event a workflow task consumed, or the signal
Record(p) == history' = [ history EXCEPT ![p] = Append(@, LiveEvent(p)) ]

RecordSignal(p, reason) ==
    history' = [ history EXCEPT ![p] =
        Append(@, [ type |-> "signal", value |-> NULL, reason |-> reason ]) ]

\* a worker that never crashes: its history is never read
Unrecorded == UNCHANGED history

\* PaymentWorkflow re-executed on one recorded event: the code between two
\* awaits runs on the recorded value, and the commands it issues are matched
\* with the history instead of being scheduled again
PaymentWorkflow_replay(in, m, ev) ==
    IF ev.type = "signal"
    THEN [ m EXCEPT !.cancelRequested = TRUE, !.cancelReason = ev.reason ]
    ELSE CASE m.pc = "start" ->
                [ m EXCEPT !.pc = "createPayment", !.stage = "CREATING_PAYMENT" ]
           [] m.pc = "createPayment" ->
                [ m EXCEPT !.pc = "markInProgress", !.stage = "FUNDING_STARTING" ]
           [] m.pc = "markInProgress" ->
                [ m EXCEPT !.pc = "startFunding" ]
           [] m.pc = "startFunding" ->
                [ m EXCEPT !.pc = "funding", !.stage = "FUNDING_RUNNING" ]
           [] m.pc = "funding" ->
                IF ev.value.status = "FAILED"
                THEN [ m EXCEPT !.fundingResult = ev.value, !.pc = "failFunding",
                                !.stage = "FAILED_FUNDING" ]
                ELSE IF m.cancelRequested
                THEN [ m EXCEPT !.fundingResult = ev.value, !.pc = "cancelled",
                                !.stage = "CANCELLED_AFTER_FUNDING" ]
                ELSE [ m EXCEPT !.fundingResult = ev.value, !.pc = "startMint",
                                !.stage = "MINTING_STARTING" ]
           [] m.pc = "startMint" ->
                [ m EXCEPT !.pc = "mint", !.stage = "MINTING_RUNNING" ]
           [] m.pc = "mint" ->
                IF ev.value.status = "FAILED"
                THEN [ m EXCEPT !.mintingResult = ev.value, !.pc = "compensateMint",
                                !.stage = "FAILED_MINTING" ]
                ELSE [ m EXCEPT !.mintingResult = ev.value, !.pc = "startOfframp",
                                !.stage = "OFFRAMP_STARTING" ]
           [] m.pc = "startOfframp" ->
                [ m EXCEPT !.pc = "offramp", !.stage = "OFFRAMP_RUNNING" ]
           [] m.pc = "offramp" ->
                IF ev.value.status = "FAILED"
                THEN [ m EXCEPT !.offrampResult = ev.value, !.pc = "compensateOfframp",
                                !.stage = "FAILED_OFFRAMP" ]
                ELSE [ m EXCEPT !.offrampResult = ev.value, !.pc = "complete",
                                !.stage = "COMPLETED" ]
           [] m.pc = "compensateMint" -> [ m EXCEPT !.pc = "failMint" ]
           [] m.pc = "compensateOfframp" -> [ m EXCEPT !.pc = "failOfframp" ]
           [] m.pc = "failFunding" ->
                [ m EXCEPT !.pc = "done",
                           !.result = [ outcome |-> "FAILED during funding child workflow" ] ]
           [] m.pc = "cancelled" ->
                [ m EXCEPT !.pc = "done",
                           !.result = [ outcome |-> "CANCELLED after funding",
                                        extra |-> IF m.cancelReason \notin { NoReason, "" }
                                                  THEN m.cancelReason ELSE "" ] ]
           [] m.pc = "failMint" ->
                [ m EXCEPT !.pc = "done",
                           !.result = [ outcome |-> "FAILED during minting; funding COMPENSATED" ] ]
           [] m.pc = "failOfframp" ->
                [ m EXCEPT !.pc = "done",
                           !.result = [ outcome |-> "FAILED during offramp; funding COMPENSATED" ] ]
           [] m.pc = "complete" ->
                [ m EXCEPT !.pc = "done",
                           !.result = [ outcome |-> "COMPLETED", amountUsd |-> in.amountUsd,
                                        usdcAmount |-> m.mintingResult.usdcAmount,
                                        usdcRate |-> m.mintingResult.usdcRate,
                                        localAmount |-> m.offrampResult.localAmount,
                                        fxRate |-> m.offrampResult.fxRate ] ]
           [] OTHER -> m

\* the whole recorded history re-executed from the entry of PaymentWorkflow
RECURSIVE Replay(_, _, _)
Replay(in, h, m) ==
    IF h = << >> THEN m
    ELSE Replay(in, Tail(h), PaymentWorkflow_replay(in, m, Head(h)))

\* the stage of the workflow of p, of the live worker or as its history gives it
StageNow(p) ==
    IF pc[p] = "down" THEN Replay(input[p], history[p], InitialMemory).stage
    ELSE stage[p]

(* ----------------------------------------------------------------------- *)
(* Inbound surfaces (HTTP API)                                             *)
(* ----------------------------------------------------------------------- *)

\* no request arrives over HTTP in this step
Unanswered == UNCHANGED apiVars

\* client.workflow.start(PaymentWorkflow, { workflowId: `payment-${id}` }): a new
\* run under that key, allowed when no run with the key is open
startPayment(p, amountUsd, destinationCurrency) ==
    /\ pc[p] \in { "none", "done" }
    /\ input' = [ input EXCEPT ![p] =
                      [ paymentId |-> p, amountUsd |-> amountUsd,
                        destinationCurrency |-> destinationCurrency ] ]
    /\ pc' = [ pc EXCEPT ![p] = "start" ]
    /\ stage' = [ stage EXCEPT ![p] = "STARTING" ]
    /\ cancelRequested' = [ cancelRequested EXCEPT ![p] = InitialMemory.cancelRequested ]
    /\ cancelReason' = [ cancelReason EXCEPT ![p] = InitialMemory.cancelReason ]
    /\ fundingResult' = [ fundingResult EXCEPT ![p] = InitialMemory.fundingResult ]
    /\ mintingResult' = [ mintingResult EXCEPT ![p] = InitialMemory.mintingResult ]
    /\ offrampResult' = [ offrampResult EXCEPT ![p] = InitialMemory.offrampResult ]
    /\ result' = [ result EXCEPT ![p] = NULL ]
    /\ history' = [ history EXCEPT ![p] = << >> ]
    /\ apos' = [ apos EXCEPT ![p] = [ a \in Activities |-> "none" ] ]
    /\ aarg' = [ aarg EXCEPT ![p] = [ a \in Activities |-> NULL ] ]
    /\ ares' = [ ares EXCEPT ![p] = [ a \in Activities |-> NULL ] ]
    /\ lastError' = [ lastError EXCEPT ![p] = "none" ]
    /\ UNCHANGED << dbVars, histVars, crashes, queryReply >>

\* the Minting leg of p has not completed yet
MintingPending(p) == apos[p]["mintUsdc"] # "done"

\* variant: the handler registers nothing
cancelPaymentSignal_dropped(p, reason) ==
    /\ pc[p] \notin { "none", "done" }
    /\ signals[p] < MaxSignals
    /\ signals' = [ signals EXCEPT ![p] = @ + 1 ]
    /\ signalledAt' = [ signalledAt EXCEPT ![p] = @ \cup { stage[p] } ]
    /\ signalledBeforeMinted' =
           [ signalledBeforeMinted EXCEPT ![p] = @ \/ MintingPending(p) ]
    /\ UNCHANGED << wfVars, crashes, queryReply >>
    /\ UNCHANGED << dbVars, actVars, bodyRuns, orphans, faults >>

\* variant: the flag and the reason are shared by the sagas of the worker
cancelPaymentSignal_shared(p, reason) ==
    /\ pc[p] \notin { "none", "done" }
    /\ signals[p] < MaxSignals
    /\ signals' = [ signals EXCEPT ![p] = @ + 1 ]
    /\ cancelRequested' = [ q \in PaymentIds |->
                                IF pc[q] \notin { "none", "done", "down" } THEN TRUE
                                ELSE cancelRequested[q] ]
    /\ cancelReason' = [ q \in PaymentIds |->
                             IF pc[q] \notin { "none", "done", "down" } THEN reason
                             ELSE cancelReason[q] ]
    /\ signalledAt' = [ signalledAt EXCEPT ![p] = @ \cup { StageNow(p) } ]
    /\ signalledBeforeMinted' =
           [ signalledBeforeMinted EXCEPT ![p] = @ \/ MintingPending(p) ]
    /\ UNCHANGED << input, pc, stage, fundingResult, mintingResult, offrampResult, result >>
    /\ UNCHANGED << crashes, queryReply >>
    /\ UNCHANGED << dbVars, actVars, bodyRuns, orphans, faults >>

\* variant: a reason once given is kept
cancelPaymentSignal_firstReason(p, reason) ==
    /\ pc[p] \notin { "none", "done" }
    /\ signals[p] < MaxSignals
    /\ signals' = [ signals EXCEPT ![p] = @ + 1 ]
    /\ IF pc[p] = "down"
       THEN UNCHANGED << cancelRequested, cancelReason >>
       ELSE /\ cancelRequested' = [ cancelRequested EXCEPT ![p] = TRUE ]
            /\ cancelReason' = [ cancelReason EXCEPT ![p] =
                                     IF cancelRequested[p] THEN @ ELSE reason ]
    /\ signalledAt' = [ signalledAt EXCEPT ![p] = @ \cup { StageNow(p) } ]
    /\ signalledBeforeMinted' =
           [ signalledBeforeMinted EXCEPT ![p] = @ \/ MintingPending(p) ]
    /\ UNCHANGED << input, pc, stage, fundingResult, mintingResult, offrampResult, result >>
    /\ UNCHANGED << crashes, queryReply >>
    /\ UNCHANGED << dbVars, actVars, bodyRuns, orphans, faults >>

\* POST /payments/:id/cancel -> cancelPaymentSignal handler of the running workflow
cancelPaymentSignal(p, reason) ==
    /\ pc[p] \notin { "none", "done" }
    /\ signals[p] < MaxSignals
    /\ signals' = [ signals EXCEPT ![p] = @ + 1 ]
    /\ IF pc[p] = "down"
       THEN UNCHANGED << cancelRequested, cancelReason >>
       ELSE /\ cancelRequested' = [ cancelRequested EXCEPT ![p] = TRUE ]
            /\ cancelReason' = [ cancelReason EXCEPT ![p] = reason ]
    /\ signalledAt' = [ signalledAt EXCEPT ![p] = @ \cup { StageNow(p) } ]
    /\ signalledBeforeMinted' =
           [ signalledBeforeMinted EXCEPT ![p] = @ \/ MintingPending(p) ]
    /\ UNCHANGED << input, pc, stage, fundingResult, mintingResult, offrampResult, result >>
    /\ UNCHANGED << crashes, queryReply >>
    /\ UNCHANGED << dbVars, actVars, bodyRuns, orphans, faults >>

\* res.status(status).json(...) of a route
Answer(route, id, status) == [ route |-> route, paymentId |-> id, status |-> status ]

\* a run keyed payment-<p> exists and has not closed
Open(p) == pc[p] \notin { "none", "done" }

\* POST /payments: validate the body, take or generate the identifier, start
\* the workflow; a start that throws (a run with the key is open) is a 500
postPayments(paymentId, amountUsd, destinationCurrency, now) ==
    LET id == IF paymentId # NoId THEN paymentId ELSE GeneratedId(now)
    IN  IF amountUsd = NotANumber \/ destinationCurrency = ""
        THEN /\ response' = Answer("POST /payments", NoId, 400)
             /\ UNCHANGED << requests, history, crashes, queryReply >>
             /\ UNCHANGED << dbVars, wfVars, actVars, histVars >>
        ELSE IF Open(id)
        THEN /\ response' = Answer("POST /payments", id, 500)
             /\ UNCHANGED << requests, history, crashes, queryReply >>
             /\ UNCHANGED << dbVars, wfVars, actVars, histVars >>
        ELSE /\ Len(requests) < MaxRequests
             /\ startPayment(id, amountUsd, destinationCurrency)
             /\ requests' = Append(requests, [ paymentId |-> id,
                                               supplied |-> paymentId # NoId ])
             /\ response' = Answer("POST /payments", id, 202)

\* variant: the signal is sent to whatever run the key ever had
cancelPayment_blind(p, reason) ==
    /\ signals[p] < MaxSignals
    /\ signals' = [ signals EXCEPT ![p] = @ + 1 ]
    /\ cancelRequested' = [ cancelRequested EXCEPT ![p] = TRUE ]
    /\ cancelReason' = [ cancelReason EXCEPT ![p] = reason ]
    /\ response' = Answer("POST /payments/:id/cancel", p, 200)
    /\ UNCHANGED << input, pc, stage, fundingResult, mintingResult, offrampResult, result >>
    /\ UNCHANGED << requests, crashes, queryReply >>
    /\ UNCHANGED << dbVars, actVars, bodyRuns, orphans, signalledAt,
                    signalledBeforeMinted, faults >>

\* POST /payments/:id/cancel: signal the run keyed payment-<p>; when the
\* signal throws WorkflowNotFoundError (no run, or a closed one) answer 404
cancelPayment(p, reason) ==
    IF Open(p)
    THEN /\ cancelPaymentSignal(p, reason)
         /\ response' = Answer("POST /payments/:id/cancel", p, 200)
         /\ UNCHANGED requests
    ELSE /\ response' = Answer("POST /payments/:id/cancel", p, 404)
         /\ UNCHANGED << requests, crashes, queryReply >>
         /\ UNCHANGED << dbVars, wfVars, actVars, histVars >>

(* ----------------------------------------------------------------------- *)
(* PaymentWorkflow, one action per stretch of code between two awaits      *)
(* ----------------------------------------------------------------------- *)

\* a workflow task touches no table; the service's record of the event it
\* consumed is Record or Unrecorded, chosen by the specification
WfFrame(p) == UNCHANGED << dbVars, histVars, crashes, queryReply, apiVars >>

\* entry: stage CREATING_PAYMENT, await createPaymentActivity(CREATED)
PaymentWorkflow_createPayment(p) ==
    /\ pc[p] = "start"
    /\ stage' = [ stage EXCEPT ![p] = "CREATING_PAYMENT" ]
    /\ Schedule(p, "createPayment",
                [ id |-> input[p].paymentId, usdAmount |-> input[p].amountUsd,
                  destinationCurrency |-> input[p].destinationCurrency,
                  status |-> "CREATED" ])
    /\ pc' = [ pc EXCEPT ![p] = "createPayment" ]
    /\ UNCHANGED << input, cancelRequested, cancelReason, fundingResult, mintingResult,
                    offrampResult, result >>
    /\ WfFrame(p)

\* variant: the Funding leg is started without advancing the payment row
PaymentWorkflow_markInProgress_skipped(p) ==
    /\ pc[p] = "createPayment"
    /\ apos[p]["createPayment"] = "done"
    /\ stage' = [ stage EXCEPT ![p] = "FUNDING_STARTING" ]
    /\ Schedule(p, "createFunding", input[p])
    /\ pc' = [ pc EXCEPT ![p] = "startFunding" ]
    /\ UNCHANGED << input, cancelRequested, cancelReason, fundingResult, mintingResult,
                    offrampResult, result >>
    /\ WfFrame(p)

\* stage FUNDING_STARTING, await updatePaymentStatusActivity(IN_PROGRESS)
PaymentWorkflow_markInProgress(p) ==
    /\ pc[p] = "createPayment"
    /\ apos[p]["createPayment"] = "done"
    /\ stage' = [ stage EXCEPT ![p] = "FUNDING_STARTING" ]
    /\ Schedule(p, "updatePaymentStatus",
                [ id |-> input[p].paymentId, status |-> "IN_PROGRESS" ])
    /\ pc' = [ pc EXCEPT ![p] = "markInProgress" ]
    /\ UNCHANGED << input, cancelRequested, cancelReason, fundingResult, mintingResult,
                    offrampResult, result >>
    /\ WfFrame(p)

\* variant: a cancellation requested by now stops the saga before funding
PaymentWorkflow_startFunding_interruptible(p) ==
    /\ pc[p] = "markInProgress"
    /\ apos[p]["updatePaymentStatus"] = "done"
    /\ IF cancelRequested[p]
       THEN /\ stage' = [ stage EXCEPT ![p] = "CANCELLED_AFTER_FUNDING" ]
            /\ Schedule(p, "updatePaymentStatus",
                        [ id |-> input[p].paymentId, status |-> "FAILED" ])
            /\ pc' = [ pc EXCEPT ![p] = "cancelled" ]
       ELSE /\ Schedule(p, "createFunding", input[p])
            /\ pc' = [ pc EXCEPT ![p] = "startFunding" ]
            /\ UNCHANGED stage
    /\ UNCHANGED << input, cancelRequested, cancelReason, fundingResult,
                    mintingResult, offrampResult, result >>
    /\ WfFrame(p)

\* await startChild(FundingWorkflow): the child runs createFundingActivity
PaymentWorkflow_startFunding(p) ==
    /\ pc[p] = "markInProgress"
    /\ apos[p]["updatePaymentStatus"] = "done"
    /\ Schedule(p, "createFunding", input[p])
    /\ pc' = [ pc EXCEPT ![p] = "startFunding" ]
    /\ UNCHANGED << input, stage, cancelRequested, cancelReason, fundingResult,
                    mintingResult, offrampResult, result >>
    /\ WfFrame(p)

\* a child was started: stage <LEG>_RUNNING, await child.result()
childRunning(p, at, running, next) ==
    /\ pc[p] = at
    /\ stage' = [ stage EXCEPT ![p] = running ]
    /\ pc' = [ pc EXCEPT ![p] = next ]
    /\ UNCHANGED << input, cancelRequested, cancelReason, fundingResult, mintingResult,
                    offrampResult, result >>
    /\ UNCHANGED actVars
    /\ WfFrame(p)

\* variant: the parent invokes the funding activity itself once the child runs
PaymentWorkflow_fundingRunning_again(p) ==
    /\ pc[p] = "startFunding"
    /\ stage' = [ stage EXCEPT ![p] = "FUNDING_RUNNING" ]
    /\ pc' = [ pc EXCEPT ![p] = "funding" ]
    /\ Schedule(p, "createFunding", input[p])
    /\ UNCHANGED << input, cancelRequested, cancelReason, fundingResult, mintingResult,
                    offrampResult, result >>
    /\ WfFrame(p)

PaymentWorkflow_fundingRunning(p) ==
    childRunning(p, "startFunding", "FUNDING_RUNNING", "funding")

\* variant: a cancellation at the checkpoint refunds the customer
PaymentWorkflow_afterFunding_refund(p) ==
    /\ pc[p] = "funding"
    /\ apos[p]["createFunding"] = "done"
    /\ fundingResult' = [ fundingResult EXCEPT ![p] = ares[p]["createFunding"] ]
    /\ IF cancelRequested[p]
       THEN /\ stage' = [ stage EXCEPT ![p] = "CANCELLED_AFTER_FUNDING" ]
            /\ Schedule(p, "compensateFunding",
                        [ fundingId |-> ares[p]["createFunding"].fundingId ])
            /\ pc' = [ pc EXCEPT ![p] = "compensateMint" ]
       ELSE /\ stage' = [ stage EXCEPT ![p] = "MINTING_STARTING" ]
            /\ Schedule(p, "mintUsdc", input[p])
            /\ pc' = [ pc EXCEPT ![p] = "startMint" ]
    /\ UNCHANGED << input, cancelRequested, cancelReason, mintingResult, offrampResult,
                    result >>
    /\ WfFrame(p)

\* variant: the cancellation flag is not looked at after funding
PaymentWorkflow_afterFunding_noCheckpoint(p) ==
    /\ pc[p] = "funding"
    /\ apos[p]["createFunding"] = "done"
    /\ fundingResult' = [ fundingResult EXCEPT ![p] = ares[p]["createFunding"] ]
    /\ stage' = [ stage EXCEPT ![p] = "MINTING_STARTING" ]
    /\ Schedule(p, "mintUsdc", input[p])
    /\ pc' = [ pc EXCEPT ![p] = "startMint" ]
    /\ UNCHANGED << input, cancelRequested, cancelReason, mintingResult, offrampResult,
                    result >>
    /\ WfFrame(p)

\* the funding result arrived: FAILED_FUNDING, the cancellation checkpoint, or
\* stage MINTING_STARTING and await startChild(MintingWorkflow)
PaymentWorkflow_afterFunding(p) ==
    /\ pc[p] = "funding"
    /\ apos[p]["createFunding"] = "done"
    /\ fundingResult' = [ fundingResult EXCEPT ![p] = ares[p]["createFunding"] ]
    /\ IF ares[p]["createFunding"].status = "FAILED"
       THEN /\ stage' = [ stage EXCEPT ![p] = "FAILED_FUNDING" ]
            /\ Schedule(p, "updatePaymentStatus",
                        [ id |-> input[p].paymentId, status |-> "FAILED" ])
            /\ pc' = [ pc EXCEPT ![p] = "failFunding" ]
       ELSE IF cancelRequested[p]
       THEN /\ stage' = [ stage EXCEPT ![p] = "CANCELLED_AFTER_FUNDING" ]
            /\ Schedule(p, "updatePaymentStatus",
                        [ id |-> input[p].paymentId, status |-> "FAILED" ])
            /\ pc' = [ pc EXCEPT ![p] = "cancelled" ]
       ELSE /\ stage' = [ stage EXCEPT ![p] = "MINTING_STARTING" ]
            /\ Schedule(p, "mintUsdc", input[p])
            /\ pc' = [ pc EXCEPT ![p] = "startMint" ]
    /\ UNCHANGED << input, cancelRequested, cancelReason, mintingResult, offrampResult,
                    result >>
    /\ WfFrame(p)

PaymentWorkflow_mintingRunning(p) ==
    childRunning(p, "startMint", "MINTING_RUNNING", "mint")

\* variant: the cancellation flag is looked at again after minting
PaymentWorkflow_afterMinting_checkpoint(p) ==
    /\ pc[p] = "mint"
    /\ apos[p]["mintUsdc"] = "done"
    /\ mintingResult' = [ mintingResult EXCEPT ![p] = ares[p]["mintUsdc"] ]
    /\ IF ares[p]["mintUsdc"].status = "FAILED"
       THEN /\ stage' = [ stage EXCEPT ![p] = "FAILED_MINTING" ]
            /\ Schedule(p, "compensateFunding",
                        [ fundingId |-> fundingResult[p].fundingId ])
            /\ pc' = [ pc EXCEPT ![p] = "compensateMint" ]
       ELSE IF cancelRequested[p]
       THEN /\ stage' = [ stage EXCEPT ![p] = "CANCELLED_AFTER_FUNDING" ]
            /\ Schedule(p, "updatePaymentStatus",
                        [ id |-> input[p].paymentId, status |-> "FAILED" ])
            /\ pc' = [ pc EXCEPT ![p] = "cancelled" ]
       ELSE /\ stage' = [ stage EXCEPT ![p] = "OFFRAMP_STARTING" ]
            /\ Schedule(p, "offramp",
                        [ paymentId |-> input[p].paymentId,
                          usdcAmount |-> ares[p]["mintUsdc"].usdcAmount,
                          destinationCurrency |-> input[p].destinationCurrency ])
            /\ pc' = [ pc EXCEPT ![p] = "startOfframp" ]
    /\ UNCHANGED << input, cancelRequested, cancelReason, fundingResult, offrampResult,
                    result >>
    /\ WfFrame(p)

\* variant: the status of the minting result is not looked at
PaymentWorkflow_afterMinting_unchecked(p) ==
    /\ pc[p] = "mint"
    /\ apos[p]["mintUsdc"] = "done"
    /\ mintingResult' = [ mintingResult EXCEPT ![p] = ares[p]["mintUsdc"] ]
    /\ stage' = [ stage EXCEPT ![p] = "OFFRAMP_STARTING" ]
    /\ Schedule(p, "offramp",
                [ paymentId |-> input[p].paymentId,
                  usdcAmount |-> ares[p]["mintUsdc"].usdcAmount,
                  destinationCurrency |-> input[p].destinationCurrency ])
    /\ pc' = [ pc EXCEPT ![p] = "startOfframp" ]
    /\ UNCHANGED << input, cancelRequested, cancelReason, fundingResult, offrampResult,
                    result >>
    /\ WfFrame(p)

\* variant: a failed minting marks the payment failed without refunding
PaymentWorkflow_afterMinting_noRefund(p) ==
    /\ pc[p] = "mint"
    /\ apos[p]["mintUsdc"] = "done"
    /\ mintingResult' = [ mintingResult EXCEPT ![p] = ares[p]["mintUsdc"] ]
    /\ IF ares[p]["mintUsdc"].status = "FAILED"
       THEN /\ stage' = [ stage EXCEPT ![p] = "FAILED_MINTING" ]
            /\ Schedule(p, "updatePaymentStatus",
                        [ id |-> input[p].paymentId, status |-> "FAILED" ])
            /\ pc' = [ pc EXCEPT ![p] = "failMint" ]
       ELSE /\ stage' = [ stage EXCEPT ![p] = "OFFRAMP_STARTING" ]
            /\ Schedule(p, "offramp",
                        [ paymentId |-> input[p].paymentId,
                          usdcAmount |-> ares[p]["mintUsdc"].usdcAmount,
                          destinationCurrency |-> input[p].destinationCurrency ])
            /\ pc' = [ pc EXCEPT ![p] = "startOfframp" ]
    /\ UNCHANGED << input, cancelRequested, cancelReason, fundingResult, offrampResult,
                    result >>
    /\ WfFrame(p)

\* the minting result arrived: FAILED_MINTING and await compensateFundingActivity,
\* or stage OFFRAMP_STARTING and await startChild(OfframpWorkflow)
PaymentWorkflow_afterMinting(p) ==
    /\ pc[p] = "mint"
    /\ apos[p]["mintUsdc"] = "done"
    /\ mintingResult' = [ mintingResult EXCEPT ![p] = ares[p]["mintUsdc"] ]
    /\ IF ares[p]["mintUsdc"].status = "FAILED"
       THEN /\ stage' = [ stage EXCEPT ![p] = "FAILED_MINTING" ]
            /\ Schedule(p, "compensateFunding",
                        [ fundingId |-> fundingResult[p].fundingId ])
            /\ pc' = [ pc EXCEPT ![p] = "compensateMint" ]
       ELSE /\ stage' = [ stage EXCEPT ![p] = "OFFRAMP_STARTING" ]
            /\ Schedule(p, "offramp",
                        [ paymentId |-> input[p].paymentId,
                          usdcAmount |-> ares[p]["mintUsdc"].usdcAmount,
                          destinationCurrency |-> input[p].destinationCurrency ])
            /\ pc' = [ pc EXCEPT ![p] = "startOfframp" ]
    /\ UNCHANGED << input, cancelRequested, cancelReason, fundingResult, offrampResult,
                    result >>
    /\ WfFrame(p)

PaymentWorkflow_offrampRunning(p) ==
    childRunning(p, "startOfframp", "OFFRAMP_RUNNING", "offramp")

\* variant: a failed offramp marks the payment failed without refunding first
PaymentWorkflow_afterOfframp_failFirst(p) ==
    /\ pc[p] = "offramp"
    /\ apos[p]["offramp"] = "done"
    /\ offrampResult' = [ offrampResult EXCEPT ![p] = ares[p]["offramp"] ]
    /\ IF ares[p]["offramp"].status = "FAILED"
       THEN /\ stage' = [ stage EXCEPT ![p] = "FAILED_OFFRAMP" ]
            /\ Schedule(p, "updatePaymentStatus",
                        [ id |-> input[p].paymentId, status |-> "FAILED" ])
            /\ pc' = [ pc EXCEPT ![p] = "failOfframp" ]
       ELSE /\ stage' = [ stage EXCEPT ![p] = "COMPLETED" ]
            /\ Schedule(p, "updatePaymentStatus",
                        [ id |-> input[p].paymentId, status |-> "COMPLETED" ])
            /\ pc' = [ pc EXCEPT ![p] = "complete" ]
    /\ UNCHANGED << input, cancelRequested, cancelReason, fundingResult, mintingResult,
                    result >>
    /\ WfFrame(p)

\* variant: the status of the offramp result is not looked at
PaymentWorkflow_afterOfframp_unchecked(p) ==
    /\ pc[p] = "offramp"
    /\ apos[p]["offramp"] = "done"
    /\ offrampResult' = [ offrampResult EXCEPT ![p] = ares[p]["offramp"] ]
    /\ stage' = [ stage EXCEPT ![p] = "COMPLETED" ]
    /\ Schedule(p, "updatePaymentStatus",
                [ id |-> input[p].paymentId, status |-> "COMPLETED" ])
    /\ pc' = [ pc EXCEPT ![p] = "complete" ]
    /\ UNCHANGED << input, cancelRequested, cancelReason, fundingResult, mintingResult,
                    result >>
    /\ WfFrame(p)

\* the offramp result arrived: FAILED_OFFRAMP and await compensateFundingActivity,
\* or stage COMPLETED and await updatePaymentStatusActivity(COMPLETED)
PaymentWorkflow_afterOfframp(p) ==
    /\ pc[p] = "offramp"
    /\ apos[p]["offramp"] = "done"
    /\ offrampResult' = [ offrampResult EXCEPT ![p] = ares[p]["offramp"] ]
    /\ IF ares[p]["offramp"].status = "FAILED"
       THEN /\ stage' = [ stage EXCEPT ![p] = "FAILED_OFFRAMP" ]
            /\ Schedule(p, "compensateFunding",
                        [ fundingId |-> fundingResult[p].fundingId ])
            /\ pc' = [ pc EXCEPT ![p] = "compensateOfframp" ]
       ELSE /\ stage' = [ stage EXCEPT ![p] = "COMPLETED" ]
            /\ Schedule(p, "updatePaymentStatus",
                        [ id |-> input[p].paymentId, status |-> "COMPLETED" ])
            /\ pc' = [ pc EXCEPT ![p] = "complete" ]
    /\ UNCHANGED << input, cancelRequested, cancelReason, fundingResult, mintingResult,
                    result >>
    /\ WfFrame(p)

\* variant: after the refund the payment is put back to CREATED
PaymentWorkflow_afterCompensation_reset(p) ==
    /\ pc[p] \in { "compensateMint", "compensateOfframp" }
    /\ apos[p]["compensateFunding"] = "done"
    /\ Schedule(p, "updatePaymentStatus",
                [ id |-> input[p].paymentId, status |-> "CREATED" ])
    /\ pc' = [ pc EXCEPT ![p] = IF pc[p] = "compensateMint" THEN "failMint"
                                                             ELSE "failOfframp" ]
    /\ UNCHANGED << input, stage, cancelRequested, cancelReason, fundingResult,
                    mintingResult, offrampResult, result >>
    /\ WfFrame(p)

\* the compensation returned: await updatePaymentStatusActivity(FAILED)
PaymentWorkflow_afterCompensation(p) ==
    /\ pc[p] \in { "compensateMint", "compensateOfframp" }
    /\ apos[p]["compensateFunding"] = "done"
    /\ Schedule(p, "updatePaymentStatus",
                [ id |-> input[p].paymentId, status |-> "FAILED" ])
    /\ pc' = [ pc EXCEPT ![p] = IF pc[p] = "compensateMint" THEN "failMint"
                                                             ELSE "failOfframp" ]
    /\ UNCHANGED << input, stage, cancelRequested, cancelReason, fundingResult,
                    mintingResult, offrampResult, result >>
    /\ WfFrame(p)

\* the last status update returned: the workflow returns its outcome string
PaymentWorkflow_return(p) ==
    /\ pc[p] \in { "failFunding", "cancelled", "failMint", "failOfframp", "complete" }
    /\ apos[p]["updatePaymentStatus"] = "done"
    /\ result' = [ result EXCEPT ![p] =
           CASE pc[p] = "failFunding" -> [ outcome |-> "FAILED during funding child workflow" ]
             [] pc[p] = "cancelled" ->
                    [ outcome |-> "CANCELLED after funding",
                      extra |-> IF cancelReason[p] \notin { NoReason, "" }
                                THEN cancelReason[p] ELSE "" ]
             [] pc[p] = "failMint" -> [ outcome |-> "FAILED during minting; funding COMPENSATED" ]
             [] pc[p] = "failOfframp" -> [ outcome |-> "FAILED during offramp; funding COMPENSATED" ]
             [] OTHER ->
                    [ outcome |-> "COMPLETED", amountUsd |-> input[p].amountUsd,
                      usdcAmount |-> mintingResult[p].usdcAmount,
                      usdcRate |-> mintingResult[p].usdcRate,
                      localAmount |-> offrampResult[p].localAmount,
                      fxRate |-> offrampResult[p].fxRate ] ]
    /\ pc' = [ pc EXCEPT ![p] = "done" ]
    /\ UNCHANGED << input, stage, cancelRequested, cancelReason, fundingResult,
                    mintingResult, offrampResult >>
    /\ UNCHANGED actVars
    /\ WfFrame(p)

(* ----------------------------------------------------------------------- *)
(* Worker crash and resume, status query                                   *)
(* ----------------------------------------------------------------------- *)

\* the worker process dies (one worker runs the workflows and the activities):
\* the locals of the running workflow are gone and the activity attempt in
\* flight dies with it, to be delivered again; the service keeps the history,
\* the scheduled invocations and the results reported so far
WorkerCrash(p) ==
    /\ pc[p] \notin { "none", "done", "down" }
    /\ crashes[p] < MaxCrashes
    /\ crashes' = [ crashes EXCEPT ![p] = @ + 1 ]
    /\ pc' = [ pc EXCEPT ![p] = "down" ]
    /\ stage' = [ stage EXCEPT ![p] = InitialMemory.stage ]
    /\ cancelRequested' = [ cancelRequested EXCEPT ![p] = InitialMemory.cancelRequested ]
    /\ cancelReason' = [ cancelReason EXCEPT ![p] = InitialMemory.cancelReason ]
    /\ fundingResult' = [ fundingResult EXCEPT ![p] = InitialMemory.fundingResult ]
    /\ mintingResult' = [ mintingResult EXCEPT ![p] = InitialMemory.mintingResult ]
    /\ offrampResult' = [ offrampResult EXCEPT ![p] = InitialMemory.offrampResult ]
    /\ LET a == Awaited(p)
       IN  IF a # "none" /\ apos[p][a] = "leg"
           THEN /\ apos' = [ apos EXCEPT ![p][a] = "sched" ]
                /\ orphans' = [ orphans EXCEPT ![p][LegOf(a)] = @ + 1 ]
           ELSE UNCHANGED << apos, orphans >>
    /\ UNCHANGED << input, result, history, queryReply, apiVars >>
    /\ UNCHANGED << aarg, ares, lastError >>
    /\ UNCHANGED << dbVars, bodyRuns, signalledAt, signalledBeforeMinted, faults, signals >>

\* a worker picks the workflow up again: PaymentWorkflow is re-executed on the
\* recorded history, which rebuilds its locals and the await it stands at
WorkerResume(p) ==
    /\ pc[p] = "down"
    /\ LET m == Replay(input[p], history[p], InitialMemory)
       IN  /\ pc' = [ pc EXCEPT ![p] = m.pc ]
           /\ stage' = [ stage EXCEPT ![p] = m.stage ]
           /\ cancelRequested' = [ cancelRequested EXCEPT ![p] = m.cancelRequested ]
           /\ cancelReason' = [ cancelReason EXCEPT ![p] = m.cancelReason ]
           /\ fundingResult' = [ fundingResult EXCEPT ![p] = m.fundingResult ]
           /\ mintingResult' = [ mintingResult EXCEPT ![p] = m.mintingResult ]
           /\ offrampResult' = [ offrampResult EXCEPT ![p] = m.offrampResult ]
           /\ result' = [ result EXCEPT ![p] = m.result ]
    /\ UNCHANGED << input, history, crashes, queryReply, apiVars >>
    /\ UNCHANGED << dbVars, actVars, histVars >>

\* variant: reading the status acknowledges the cancellation request
paymentStatusQuery_acknowledge(p) ==
    /\ pc[p] \notin { "none", "down" }
    /\ queryReply' = [ queryReply EXCEPT ![p] =
           [ stage |-> stage[p], cancelRequested |-> cancelRequested[p] ] ]
    /\ cancelRequested' = [ cancelRequested EXCEPT ![p] = FALSE ]
    /\ UNCHANGED << input, pc, stage, cancelReason, fundingResult, mintingResult,
                    offrampResult, result >>
    /\ UNCHANGED << history, crashes, apiVars >>
    /\ UNCHANGED << dbVars, actVars, histVars >>

\* paymentStatusQuery handler: answers { stage, cancelRequested }
paymentStatusQuery(p) ==
    /\ pc[p] \notin { "none", "down" }
    /\ queryReply' = [ queryReply EXCEPT ![p] =
           [ stage |-> stage[p], cancelRequested |-> cancelRequested[p] ] ]
    /\ UNCHANGED wfVars
    /\ UNCHANGED << history, crashes, apiVars >>
    /\ UNCHANGED << dbVars, actVars, histVars >>

(* ----------------------------------------------------------------------- *)
(* Rate import script                                                      *)
(* ----------------------------------------------------------------------- *)

\* currency_mapping.json: ISO code -> description of the Treasury file
codeToDesc == ("MXN" :> "Mexico-Peso") @@ ("JPY" :> "Japan-Yen")

\* country_currency_desc values of the file; the last has no mapping entry
Descriptions == { "Mexico-Peso", "Japan-Yen", "Atlantis-Crown" }

\* exchange_rate strings, as the digits before and after the point
RateStrings == { << 18, 344 >>, << 147, 265 >> }

\* effective_date strings "YYYY-MM-DD", as their three zero-padded fields
DateStrings == { << 2024, 12, 31 >>, << 2025, 9, 30 >> }

TreasuryRows ==
    [ country_currency_desc : Descriptions, exchange_rate : RateStrings,
      effective_date : DateStrings ]

\* the files of at most MaxRows rows
TreasuryFiles ==
    UNION { [ 1 .. n -> TreasuryRows ] : n \in 0 .. MaxRows }

\* a > b on two strings of the form YYYY-MM-DD: the first field that differs decides
StringGreater(a, b) ==
    \E i \in 1 .. 3 : a[i] > b[i] /\ \A j \in 1 .. (i - 1) : a[j] = b[j]

\* Number(row.exchange_rate)
ParsedNumber(str) == Decimal(str[1], str[2])

\* what Map.get answers for a key that is not there
NoCode == "undefined"

\* descToCodeMap.get(desc): the code of the description, or undefined
descToCodeMap(desc) ==
    IF \E code \in DOMAIN codeToDesc : codeToDesc[code] = desc
    THEN CHOOSE code \in DOMAIN codeToDesc : codeToDesc[code] = desc
    ELSE NoCode

\* latestByDesc.set(key, row) on a Map kept as its entries in insertion order
MapSet(m, row) ==
    IF \E k \in DOMAIN m : m[k].country_currency_desc = row.country_currency_desc
    THEN [ k \in DOMAIN m |->
             IF m[k].country_currency_desc = row.country_currency_desc THEN row ELSE m[k] ]
    ELSE Append(m, row)

\* variant: a row replaces the entry unless it is older
latestByDesc_row_orLater(m, row) ==
    LET hit == { k \in DOMAIN m : m[k].country_currency_desc = row.country_currency_desc }
    IN  IF hit = {} \/ \A k \in hit :
               ~StringGreater(m[k].effective_date, row.effective_date)
        THEN MapSet(m, row)
        ELSE m

\* one turn of the loop over parsed.data: the row is kept when its description
\* has no entry yet or its date is greater than the entry's
latestByDesc_row(m, row) ==
    LET hit == { k \in DOMAIN m : m[k].country_currency_desc = row.country_currency_desc }
    IN  IF hit = {} \/ \A k \in hit :
               StringGreater(row.effective_date, m[k].effective_date)
        THEN MapSet(m, row)
        ELSE m

\* the loop over parsed.data: keep only the latest row per description
RECURSIVE latestByDesc(_, _)
latestByDesc(data, m) ==
    IF data = << >> THEN m
    ELSE latestByDesc(Tail(data), latestByDesc_row(m, Head(data)))

\* INSERT INTO fx_rates ... ON CONFLICT (base_currency, quote_currency) DO
\* UPDATE SET rate, as_of: the table after the statement
upsertFxRate(table, base, quote, rate, asOf) ==
    { r \in table : ~(r.base_currency = base /\ r.quote_currency = quote) }
        \cup { [ base_currency |-> base, quote_currency |-> quote, rate |-> rate,
                 as_of |-> asOf ] }

\* what every step of the import leaves alone
ImportFrame ==
    UNCHANGED << payments, funding, minting, offramp, fees, nextId, wfVars, svcVars,
                 actVars, histVars >>

\* main(), up to BEGIN: read the file, select the rows, open the transaction
importFxRates_begin(data) ==
    /\ importer.pc = "idle"
    /\ importer' = [ pc |-> "tx", data |-> data, todo |-> latestByDesc(data, << >>),
                     table |-> fx_rates, exitCode |-> 0 ]
    /\ UNCHANGED fx_rates
    /\ ImportFrame

\* variant: every statement is committed as it is made
importFxRates_upsert_autocommit(lost) ==
    /\ importer.pc = "tx"
    /\ importer.todo # << >>
    /\ LET row == Head(importer.todo)
           quoteCurrency == descToCodeMap(row.country_currency_desc)
       IN  IF quoteCurrency = NoCode \/ lost
           THEN /\ importer' = [ importer EXCEPT !.pc = "rolledback", !.table = {},
                                                 !.exitCode = 1 ]
                /\ UNCHANGED fx_rates
           ELSE /\ importer' = [ importer EXCEPT !.todo = Tail(@) ]
                /\ fx_rates' = upsertFxRate(fx_rates, "USD", quoteCurrency,
                                            ParsedNumber(row.exchange_rate),
                                            row.effective_date)
    /\ ImportFrame

\* one turn of the loop over latestByDesc: descToCode and the upsert, inside
\* the transaction; an unknown description, or a statement the connection
\* loses, throws into the catch, which rolls back and sets the exit code
importFxRates_upsert(lost) ==
    /\ importer.pc = "tx"
    /\ importer.todo # << >>
    /\ LET row == Head(importer.todo)
           quoteCurrency == descToCodeMap(row.country_currency_desc)
       IN  IF quoteCurrency = NoCode \/ lost
           THEN importer' = [ importer EXCEPT !.pc = "rolledback", !.table = {},
                                              !.exitCode = 1 ]
           ELSE importer' = [ importer EXCEPT
                                !.todo = Tail(@),
                                !.table = upsertFxRate(@, "USD", quoteCurrency,
                                                       ParsedNumber(row.exchange_rate),
                                                       row.effective_date) ]
    /\ UNCHANGED fx_rates
    /\ ImportFrame

\* COMMIT after the last turn: the writes of the transaction become the table
importFxRates_commit ==
    /\ importer.pc = "tx"
    /\ importer.todo = << >>
    /\ fx_rates' = importer.table
    /\ importer' = [ importer EXCEPT !.pc = "committed", !.table = {} ]
    /\ ImportFrame

(* ----------------------------------------------------------------------- *)
(* Specification                                                           *)
(* ----------------------------------------------------------------------- *)

\* no saga has been requested yet
Idle == \A q \in PaymentIds : pc[q] = "none"

\* Spec follows one saga, of either supplied identifier, from its request to its end
Next ==
    \/ \E p \in SuppliedIds, a \in Amounts, c \in Currencies :
           Idle /\ startPayment(p, a, c) /\ Unanswered
    \/ \E p \in PaymentIds, r \in Reasons : cancelPaymentSignal(p, r) /\ Unrecorded /\ Unanswered
    \/ \E p \in PaymentIds : PaymentWorkflow_createPayment(p) /\ Unrecorded
    \/ \E p \in PaymentIds : PaymentWorkflow_markInProgress(p) /\ Unrecorded
    \/ \E p \in PaymentIds : PaymentWorkflow_startFunding(p) /\ Unrecorded
    \/ \E p \in PaymentIds : PaymentWorkflow_fundingRunning(p) /\ Unrecorded
    \/ \E p \in PaymentIds : PaymentWorkflow_afterFunding(p) /\ Unrecorded
    \/ \E p \in PaymentIds : PaymentWorkflow_mintingRunning(p) /\ Unrecorded
    \/ \E p \in PaymentIds : PaymentWorkflow_afterMinting(p) /\ Unrecorded
    \/ \E p \in PaymentIds : PaymentWorkflow_offrampRunning(p) /\ Unrecorded
    \/ \E p \in PaymentIds : PaymentWorkflow_afterOfframp(p) /\ Unrecorded
    \/ \E p \in PaymentIds : PaymentWorkflow_afterCompensation(p) /\ Unrecorded
    \/ \E p \in PaymentIds : PaymentWorkflow_return(p) /\ Unrecorded
    \/ \E p \in PaymentIds : createPaymentActivity(p)
    \/ \E p \in PaymentIds : updatePaymentStatusActivity(p)
    \/ \E p \in PaymentIds : createFundingActivity(p)
    \/ \E p \in PaymentIds : mintUsdcActivity(p)
    \/ \E p \in PaymentIds : offrampActivity(p)
    \/ \E p \in PaymentIds : compensateFundingActivity(p)
    \/ \E p \in PaymentIds : Redeliver(p)

Spec == Init /\ [][Next]_vars

\* a worker that polls the task queue runs every workflow task and every
\* activity task that stays ready; signals and lost completions are not owed
WorkflowTask(p) ==
    /\ \/ PaymentWorkflow_createPayment(p)
       \/ PaymentWorkflow_markInProgress(p)
       \/ PaymentWorkflow_startFunding(p)
       \/ PaymentWorkflow_fundingRunning(p)
       \/ PaymentWorkflow_afterFunding(p)
       \/ PaymentWorkflow_mintingRunning(p)
       \/ PaymentWorkflow_afterMinting(p)
       \/ PaymentWorkflow_offrampRunning(p)
       \/ PaymentWorkflow_afterOfframp(p)
       \/ PaymentWorkflow_afterCompensation(p)
       \/ PaymentWorkflow_return(p)
    /\ Unrecorded

ActivityTask(p) ==
    \/ createPaymentActivity(p)
    \/ updatePaymentStatusActivity(p)
    \/ createFundingActivity(p)
    \/ mintUsdcActivity(p)
    \/ offrampActivity(p)
    \/ compensateFundingActivity(p)

Fairness ==
    \A p \in PaymentIds : WF_vars(WorkflowTask(p)) /\ WF_vars(ActivityTask(p))

FairSpec == Init /\ [][Next]_vars /\ Fairness

\* the saga on a worker that may crash and be resumed from the recorded history
NextReplay ==
    \/ \E p \in SuppliedIds, a \in Amounts, c \in Currencies :
           Idle /\ startPayment(p, a, c) /\ Unanswered
    \/ \E p \in PaymentIds, r \in Reasons : cancelPaymentSignal(p, r) /\ RecordSignal(p, r) /\ Unanswered
    \/ \E p \in PaymentIds : PaymentWorkflow_createPayment(p) /\ Record(p)
    \/ \E p \in PaymentIds : PaymentWorkflow_markInProgress(p) /\ Record(p)
    \/ \E p \in PaymentIds : PaymentWorkflow_startFunding(p) /\ Record(p)
    \/ \E p \in PaymentIds : PaymentWorkflow_fundingRunning(p) /\ Record(p)
    \/ \E p \in PaymentIds : PaymentWorkflow_afterFunding(p) /\ Record(p)
    \/ \E p \in PaymentIds : PaymentWorkflow_mintingRunning(p) /\ Record(p)
    \/ \E p \in PaymentIds : PaymentWorkflow_afterMinting(p) /\ Record(p)
    \/ \E p \in PaymentIds : PaymentWorkflow_offrampRunning(p) /\ Record(p)
    \/ \E p \in PaymentIds : PaymentWorkflow_afterOfframp(p) /\ Record(p)
    \/ \E p \in PaymentIds : PaymentWorkflow_afterCompensation(p) /\ Record(p)
    \/ \E p \in PaymentIds : PaymentWorkflow_return(p) /\ Record(p)
    \/ \E p \in PaymentIds : createPaymentActivity(p)
    \/ \E p \in PaymentIds : updatePaymentStatusActivity(p)
    \/ \E p \in PaymentIds : createFundingActivity(p)
    \/ \E p \in PaymentIds : mintUsdcActivity(p)
    \/ \E p \in PaymentIds : offrampActivity(p)
    \/ \E p \in PaymentIds : compensateFundingActivity(p)
    \/ \E p \in PaymentIds : Redeliver(p)
    \/ \E p \in PaymentIds : WorkerCrash(p)
    \/ \E p \in PaymentIds : WorkerResume(p)

SpecReplay == Init /\ [][NextReplay]_vars

\* the saga with status queries arriving at any point
NextQuery ==
    \/ Next
    \/ \E p \in PaymentIds : paymentStatusQuery(p)

SpecQuery == Init /\ [][NextQuery]_vars

\* an identifier nanoid() never handed out: it names no funding row
NoSuchFunding(p) == << p, 0 >>

\* compensateFundingActivity(params: { fundingId: string }): the pending
\* invocation is made with an identifier of the caller's choosing
invokeCompensation(p, fundingId) ==
    /\ Runnable(p, "compensateFunding", "sched")
    /\ lastError[p] = "none"
    /\ aarg[p]["compensateFunding"].fundingId # fundingId
    /\ aarg' = [ aarg EXCEPT ![p]["compensateFunding"] = [ fundingId |-> fundingId ] ]
    /\ UNCHANGED << apos, ares, lastError >>
    /\ UNCHANGED << dbVars, wfVars, svcVars, histVars >>

\* the saga, with the compensation handler invoked for a funding row of the
\* payment or for an identifier that matches no row
NextCompensation ==
    \/ Next
    \/ \E p \in PaymentIds :
           \E id \in { r.id : r \in funding } \cup { NoSuchFunding(p) } :
               invokeCompensation(p, id)

SpecCompensation == Init /\ [][NextCompensation]_vars

\* updatePaymentStatusActivity(params: { id, status }): the pending invocation
\* is made with a payment identifier of the caller's choosing
invokeStatusUpdate(p, id) ==
    /\ Runnable(p, "updatePaymentStatus", "sched")
    /\ lastError[p] = "none"
    /\ aarg[p]["updatePaymentStatus"].id # id
    /\ aarg' = [ aarg EXCEPT ![p]["updatePaymentStatus"].id = id ]
    /\ UNCHANGED << apos, ares, lastError >>
    /\ UNCHANGED << dbVars, wfVars, svcVars, histVars >>

\* the saga, with the status update requested for its own payment or for an
\* identifier that has no payment row
NextStatusUpdate ==
    \/ Next
    \/ \E p \in PaymentIds :
           \E id \in { q \in PaymentIds : payments[q] = NULL } :
               invokeStatusUpdate(p, id)

SpecStatusUpdate == Init /\ [][NextStatusUpdate]_vars

\* requested amounts and destination currencies of the conversions checked
NumericAmounts == { Decimal(1, 0), Decimal(100, 0), Decimal(250, 0) }

NumericCurrencies == { "MXN", "JPY" }

\* the rate table with a currency of two decimal places and one of none
NumericRates ==
    { [ base_currency |-> "USD", quote_currency |-> "MXN", rate |-> Decimal(18, 344),
        as_of |-> << 2025, 9, 30 >> ],
      [ base_currency |-> "USD", quote_currency |-> "JPY", rate |-> Decimal(147, 265),
        as_of |-> << 2025, 9, 30 >> ] }

InitNumeric == InitWith(NumericRates)

\* one saga of any of these amounts to any of these currencies, every
\* invocation delivered once
NextNumeric ==
    \/ \E p \in SuppliedIds, a \in NumericAmounts, c \in NumericCurrencies :
           Idle /\ startPayment(p, a, c) /\ Unanswered
    \/ \E p \in PaymentIds, r \in Reasons : cancelPaymentSignal(p, r) /\ Unrecorded /\ Unanswered
    \/ \E p \in PaymentIds : PaymentWorkflow_createPayment(p) /\ Unrecorded
    \/ \E p \in PaymentIds : PaymentWorkflow_markInProgress(p) /\ Unrecorded
    \/ \E p \in PaymentIds : PaymentWorkflow_startFunding(p) /\ Unrecorded
    \/ \E p \in PaymentIds : PaymentWorkflow_fundingRunning(p) /\ Unrecorded
    \/ \E p \in PaymentIds : PaymentWorkflow_afterFunding(p) /\ Unrecorded
    \/ \E p \in PaymentIds : PaymentWorkflow_mintingRunning(p) /\ Unrecorded
    \/ \E p \in PaymentIds : PaymentWorkflow_afterMinting(p) /\ Unrecorded
    \/ \E p \in PaymentIds : PaymentWorkflow_offrampRunning(p) /\ Unrecorded
    \/ \E p \in PaymentIds : PaymentWorkflow_afterOfframp(p) /\ Unrecorded
    \/ \E p \in PaymentIds : PaymentWorkflow_afterCompensation(p) /\ Unrecorded
    \/ \E p \in PaymentIds : PaymentWorkflow_return(p) /\ Unrecorded
    \/ \E p \in PaymentIds : createPaymentActivity(p)
    \/ \E p \in PaymentIds : updatePaymentStatusActivity(p)
    \/ \E p \in PaymentIds : createFundingActivity(p)
    \/ \E p \in PaymentIds : mintUsdcActivity(p)
    \/ \E p \in PaymentIds : offrampActivity(p)
    \/ \E p \in PaymentIds : compensateFundingActivity(p)

SpecNumeric == InitNumeric /\ [][NextNumeric]_vars

\* one saga whose cancellations arrive over POST /payments/:id/cancel, for
\* its own identifier or any other, while it runs and after it has ended
NextCancel ==
    \/ \E p \in SuppliedIds, a \in Amounts, c \in Currencies :
           Idle /\ startPayment(p, a, c) /\ Unanswered
    \/ \E p \in PaymentIds, r \in Reasons : cancelPayment(p, r) /\ Unrecorded
    \/ \E p \in PaymentIds : PaymentWorkflow_createPayment(p) /\ Unrecorded
    \/ \E p \in PaymentIds : PaymentWorkflow_markInProgress(p) /\ Unrecorded
    \/ \E p \in PaymentIds : PaymentWorkflow_startFunding(p) /\ Unrecorded
    \/ \E p \in PaymentIds : PaymentWorkflow_fundingRunning(p) /\ Unrecorded
    \/ \E p \in PaymentIds : PaymentWorkflow_afterFunding(p) /\ Unrecorded
    \/ \E p \in PaymentIds : PaymentWorkflow_mintingRunning(p) /\ Unrecorded
    \/ \E p \in PaymentIds : PaymentWorkflow_afterMinting(p) /\ Unrecorded
    \/ \E p \in PaymentIds : PaymentWorkflow_offrampRunning(p) /\ Unrecorded
    \/ \E p \in PaymentIds : PaymentWorkflow_afterOfframp(p) /\ Unrecorded
    \/ \E p \in PaymentIds : PaymentWorkflow_afterCompensation(p) /\ Unrecorded
    \/ \E p \in PaymentIds : PaymentWorkflow_return(p) /\ Unrecorded
    \/ \E p \in PaymentIds : createPaymentActivity(p)
    \/ \E p \in PaymentIds : updatePaymentStatusActivity(p)
    \/ \E p \in PaymentIds : createFundingActivity(p)
    \/ \E p \in PaymentIds : mintUsdcActivity(p)
    \/ \E p \in PaymentIds : offrampActivity(p)
    \/ \E p \in PaymentIds : compensateFundingActivity(p)

SpecCancel == Init /\ [][NextCancel]_vars

\* payment requests over POST /payments, with or without an identifier of
\* their own and valid or not, one saga after the other: while a saga runs,
\* the requests that arrive are for its identifier
NextRequests ==
    \/ \E id \in SuppliedIds \cup { NoId }, a \in Amounts \cup { NotANumber },
          c \in Currencies \cup { "" }, now \in Clock :
           /\ \A q \in PaymentIds :
                  Open(q) => q = (IF id # NoId THEN id ELSE GeneratedId(now))
           /\ postPayments(id, a, c, now)
    \/ \E p \in PaymentIds : PaymentWorkflow_createPayment(p) /\ Unrecorded
    \/ \E p \in PaymentIds : PaymentWorkflow_markInProgress(p) /\ Unrecorded
    \/ \E p \in PaymentIds : PaymentWorkflow_startFunding(p) /\ Unrecorded
    \/ \E p \in PaymentIds : PaymentWorkflow_fundingRunning(p) /\ Unrecorded
    \/ \E p \in PaymentIds : PaymentWorkflow_afterFunding(p) /\ Unrecorded
    \/ \E p \in PaymentIds : PaymentWorkflow_mintingRunning(p) /\ Unrecorded
    \/ \E p \in PaymentIds : PaymentWorkflow_afterMinting(p) /\ Unrecorded
    \/ \E p \in PaymentIds : PaymentWorkflow_offrampRunning(p) /\ Unrecorded
    \/ \E p \in PaymentIds : PaymentWorkflow_afterOfframp(p) /\ Unrecorded
    \/ \E p \in PaymentIds : PaymentWorkflow_afterCompensation(p) /\ Unrecorded
    \/ \E p \in PaymentIds : PaymentWorkflow_return(p) /\ Unrecorded
    \/ \E p \in PaymentIds : createPaymentActivity(p)
    \/ \E p \in PaymentIds : updatePaymentStatusActivity(p)
    \/ \E p \in PaymentIds : createFundingActivity(p)
    \/ \E p \in PaymentIds : mintUsdcActivity(p)
    \/ \E p \in PaymentIds : offrampActivity(p)
    \/ \E p \in PaymentIds : compensateFundingActivity(p)

SpecRequests == Init /\ [][NextRequests]_vars

\* two sagas of distinct payments on the same worker and the same tables, each
\* started at any moment and their steps interleaved at will; the cancellation
\* signals, MaxSignals in all, go to either saga
NextConcurrent ==
    \/ \E p \in SuppliedIds, a \in Amounts, c \in Currencies :
           pc[p] = "none" /\ startPayment(p, a, c) /\ Unanswered
    \/ \E p \in PaymentIds, r \in Reasons :
           /\ \A q \in PaymentIds \ { p } : signals[p] + signals[q] < MaxSignals
           /\ cancelPaymentSignal(p, r) /\ Unrecorded /\ Unanswered
    \/ \E p \in PaymentIds : PaymentWorkflow_createPayment(p) /\ Unrecorded
    \/ \E p \in PaymentIds : PaymentWorkflow_markInProgress(p) /\ Unrecorded
    \/ \E p \in PaymentIds : PaymentWorkflow_startFunding(p) /\ Unrecorded
    \/ \E p \in PaymentIds : PaymentWorkflow_fundingRunning(p) /\ Unrecorded
    \/ \E p \in PaymentIds : PaymentWorkflow_afterFunding(p) /\ Unrecorded
    \/ \E p \in PaymentIds : PaymentWorkflow_mintingRunning(p) /\ Unrecorded
    \/ \E p \in PaymentIds : PaymentWorkflow_afterMinting(p) /\ Unrecorded
    \/ \E p \in PaymentIds : PaymentWorkflow_offrampRunning(p) /\ Unrecorded
    \/ \E p \in PaymentIds : PaymentWorkflow_afterOfframp(p) /\ Unrecorded
    \/ \E p \in PaymentIds : PaymentWorkflow_afterCompensation(p) /\ Unrecorded
    \/ \E p \in PaymentIds : PaymentWorkflow_return(p) /\ Unrecorded
    \/ \E p \in PaymentIds : createPaymentActivity(p)
    \/ \E p \in PaymentIds : updatePaymentStatusActivity(p)
    \/ \E p \in PaymentIds : createFundingActivity(p)
    \/ \E p \in PaymentIds : mintUsdcActivity(p)
    \/ \E p \in PaymentIds : offrampActivity(p)
    \/ \E p \in PaymentIds : compensateFundingActivity(p)

SpecConcurrent == Init /\ [][NextConcurrent]_vars

\* one saga on a worker that never crashes, with the signals and the events
\* its workflow consumed kept in the order the service delivered them
NextSignals ==
    \/ \E p \in SuppliedIds, a \in Amounts, c \in Currencies :
           Idle /\ startPayment(p, a, c) /\ Unanswered
    \/ \E p \in PaymentIds, r \in Reasons :
           cancelPaymentSignal(p, r) /\ RecordSignal(p, r) /\ Unanswered
    \/ \E p \in PaymentIds : PaymentWorkflow_createPayment(p) /\ Record(p)
    \/ \E p \in PaymentIds : PaymentWorkflow_markInProgress(p) /\ Record(p)
    \/ \E p \in PaymentIds : PaymentWorkflow_startFunding(p) /\ Record(p)
    \/ \E p \in PaymentIds : PaymentWorkflow_fundingRunning(p) /\ Record(p)
    \/ \E p \in PaymentIds : PaymentWorkflow_afterFunding(p) /\ Record(p)
    \/ \E p \in PaymentIds : PaymentWorkflow_mintingRunning(p) /\ Record(p)
    \/ \E p \in PaymentIds : PaymentWorkflow_afterMinting(p) /\ Record(p)
    \/ \E p \in PaymentIds : PaymentWorkflow_offrampRunning(p) /\ Record(p)
    \/ \E p \in PaymentIds : PaymentWorkflow_afterOfframp(p) /\ Record(p)
    \/ \E p \in PaymentIds : PaymentWorkflow_afterCompensation(p) /\ Record(p)
    \/ \E p \in PaymentIds : PaymentWorkflow_return(p) /\ Record(p)
    \/ \E p \in PaymentIds : createPaymentActivity(p)
    \/ \E p \in PaymentIds : updatePaymentStatusActivity(p)
    \/ \E p \in PaymentIds : createFundingActivity(p)
    \/ \E p \in PaymentIds : mintUsdcActivity(p)
    \/ \E p \in PaymentIds : offrampActivity(p)
    \/ \E p \in PaymentIds : compensateFundingActivity(p)

SpecSignals == Init /\ [][NextSignals]_vars

\* one run of the import script on the table as an earlier import left it,
\* for every file of at most MaxRows rows
NextImport ==
    \/ importer.pc = "idle" /\ \E data \in TreasuryFiles : importFxRates_begin(data)
    \/ \E lost \in BOOLEAN : importFxRates_upsert(lost)
    \/ importFxRates_commit

SpecImport == Init /\ [][NextImport]_vars

(* ----------------------------------------------------------------------- *)
(* Views of the state used by the properties                               *)
(* ----------------------------------------------------------------------- *)

\* the table a leg writes
legTable(L) ==
    CASE L = "FUNDING" -> funding
      [] L = "MINTING" -> minting
      [] OTHER -> offramp

\* the activity that executes a leg
ActOf(L) ==
    CASE L = "FUNDING" -> "createFunding"
      [] L = "MINTING" -> "mintUsdc"
      [] OTHER -> "offramp"

\* what the saga holds of a leg's return value
legResult(p, L) ==
    CASE L = "FUNDING" -> fundingResult[p]
      [] L = "MINTING" -> mintingResult[p]
      [] OTHER -> offrampResult[p]

LegRows(p, L) == { r \in legTable(L) : r.payment_id = p }

FeeRows(p, L) == { f \in fees : f.payment_id = p /\ f.leg = L }

LegStarted(p, L) == apos[p][ActOf(L)] # "none"

LegReturned(p, L) == legResult(p, L) # NULL

LegInFlight(p, L) == LegStarted(p, L) /\ ~LegReturned(p, L)

CompensationInvoked(p) == apos[p]["compensateFunding"] # "none"

\* stages up to the cancellation checkpoint, and after it
PreCheckpoint == { "STARTING", "CREATING_PAYMENT", "FUNDING_STARTING", "FUNDING_RUNNING" }

PostCheckpoint ==
    { "MINTING_STARTING", "MINTING_RUNNING", "FAILED_MINTING", "OFFRAMP_STARTING",
      "OFFRAMP_RUNNING", "FAILED_OFFRAMP", "COMPLETED" }

\* a cancellation signal was handled before the checkpoint
CancelledInTime(p) == signalledAt[p] \cap PreCheckpoint # {}

\* currencies.decimal_places: the decimal places of a currency's minor unit
\* (ISO 4217: the yen has none), 2 when the column is left at its default
decimal_places(code) == IF code = "JPY" THEN 0 ELSE 2

\* x rounded to d decimal places, half away from zero (d at most 3)
RoundTo(x, d) ==
    LET q == CASE d = 0 -> 1000 [] d = 1 -> 100 [] d = 2 -> 10 [] OTHER -> 1
    IN  ((x + q \div 2) \div q) * q

(* ----------------------------------------------------------------------- *)
(* Properties                                                              *)
(* ----------------------------------------------------------------------- *)

\* C1: the legs of a payment run in the order Funding, Minting, Offramp and
\* never overlap: Minting is started only after Funding has returned, Offramp
\* only after Minting has returned COMPLETED, and at most one leg is in flight.
C1_LegsInOrder ==
    \A p \in PaymentIds :
        /\ LegStarted(p, "MINTING") => LegReturned(p, "FUNDING")
        /\ LegStarted(p, "OFFRAMP") =>
               /\ LegReturned(p, "MINTING")
               /\ mintingResult[p].status = "COMPLETED"
        /\ Cardinality({ L \in Legs : LegInFlight(p, L) }) <= 1

C1_Witness ==
    \E p \in PaymentIds :
        /\ apos[p]["offramp"] = "leg"
        /\ LegReturned(p, "FUNDING")
        /\ LegReturned(p, "MINTING")

NaturalStage(p) ==
    IF includes(input[p].paymentId, "fail-mint") THEN "FAILED_MINTING"
    ELSE IF getFxRate("USD", input[p].destinationCurrency) = NULL THEN "FAILED_OFFRAMP"
    ELSE "COMPLETED"

\* what a finished saga left behind, identifiers aside
Outcome(p) ==
    [ stage |-> stage[p],
      status |-> payments[p].status,
      funding |-> { r.status : r \in LegRows(p, "FUNDING") },
      refunded |-> { r.status : r \in { q \in LegRows(p, "FUNDING") :
                                          q.id = fundingResult[p].fundingId } },
      minting |-> { << r.status, r.usd_amount, r.usdc_amount >> : r \in LegRows(p, "MINTING") },
      offramp |-> { << r.status, r.usdc_amount, r.fx_rate >> : r \in LegRows(p, "OFFRAMP") },
      rows |-> [ L \in Legs |-> Cardinality(LegRows(p, L)) ],
      fees |-> [ L \in Legs |-> Cardinality(FeeRows(p, L)) + orphans[p][L] ] ]

\* the same, as the inputs and the deliveries alone determine it
ExpectedOutcome(p) ==
    LET n == NaturalStage(p)
        amount == input[p].amountUsd
        runs == [ L \in Legs |-> bodyRuns[p][ActOf(L)] ]
    IN  [ stage |-> n,
          status |-> IF n = "COMPLETED" THEN "COMPLETED" ELSE "FAILED",
          funding |-> (IF n = "COMPLETED" THEN {} ELSE { "COMPENSATED" })
                      \cup (IF n = "COMPLETED" \/ runs["FUNDING"] > 1
                            THEN { "COMPLETED" } ELSE {}),
          refunded |-> { IF n = "COMPLETED" THEN "COMPLETED" ELSE "COMPENSATED" },
          minting |-> { IF n = "FAILED_MINTING" THEN << "FAILED", amount, 0 >>
                        ELSE << "COMPLETED", amount, amount >> },
          offramp |-> CASE n = "FAILED_MINTING" -> {}
                        [] n = "FAILED_OFFRAMP" -> { << "FAILED", amount, 0 >> }
                        [] OTHER -> { << "COMPLETED", amount,
                                         getFxRate("USD", input[p].destinationCurrency).rate >> },
          rows |-> runs,
          fees |-> [ L \in Legs |->
                       CASE L = "FUNDING" -> runs[L]
                         [] L = "MINTING" -> IF n = "FAILED_MINTING" THEN 0 ELSE runs[L]
                         [] OTHER -> IF n = "COMPLETED" THEN runs[L] ELSE 0 ] ]

\* C5: a cancellation signal handled after the checkpoint has no effect on the
\* saga: whether or not such signals were sent, the saga ends in the stage, with
\* the payment status and the leg and fee rows that its inputs and deliveries
\* determine; only cancelRequested differs.
C5_LateSignalHasNoEffect ==
    \A p \in PaymentIds :
        (pc[p] = "done" /\ ~CancelledInTime(p)) => Outcome(p) = ExpectedOutcome(p)

C5_Witness ==
    \E p \in PaymentIds :
        /\ pc[p] = "done"
        /\ stage[p] = "COMPLETED"
        /\ cancelRequested[p]
        /\ "MINTING_RUNNING" \in signalledAt[p]
        /\ ~CancelledInTime(p)

\* the steps the payment status may take
Forward(s, t) ==
    \/ s = t
    \/ s = "CREATED" /\ t = "IN_PROGRESS"
    \/ s = "IN_PROGRESS" /\ t \in { "COMPLETED", "FAILED" }

\* C6: the status of a payment row only moves along CREATED -> IN_PROGRESS ->
\* {COMPLETED | FAILED}: a COMPLETED or FAILED row never changes again and an
\* IN_PROGRESS row never returns to CREATED, activity retries included.
C6_PaymentStatusForward ==
    [][ \A p \in PaymentIds :
            payments[p] # NULL =>
                /\ payments'[p] # NULL
                /\ Forward(payments[p].status, payments'[p].status) ]_vars

C6_Witness ==
    \E p \in PaymentIds :
        /\ payments[p] # NULL
        /\ payments[p].status = "FAILED"
        /\ faults[p] > 0
        /\ bodyRuns[p]["updatePaymentStatus"] > 2

\* leg rows that were charged a fee when they were written
ChargedRows(p, L) == { r \in LegRows(p, L) : r.status \in { "COMPLETED", "COMPENSATED" } }

\* an attempt of the leg's executor stands between its two writes
MidWrite(p, L) == IF apos[p][ActOf(L)] = "leg" THEN 1 ELSE 0

\* C7 (as amended): for every payment and leg type L the fee rows tagged L are
\* as many as the leg rows of type L recorded COMPLETED, a funding row later
\* marked COMPENSATED included (it keeps its fee), less the rows whose executor
\* stands, or was abandoned, between its two writes; without redelivery and
\* outside the executor that is 1 iff the leg row is COMPLETED or COMPENSATED
\* and 0 otherwise.
C7_FeePerChargedLeg ==
    \A p \in PaymentIds : \A L \in Legs :
        /\ Cardinality(FeeRows(p, L)) + MidWrite(p, L) + orphans[p][L]
               = Cardinality(ChargedRows(p, L))
        /\ (faults[p] = 0 /\ MidWrite(p, L) = 0) =>
               Cardinality(FeeRows(p, L)) = IF ChargedRows(p, L) # {} THEN 1 ELSE 0

C7_Witness ==
    \E p \in PaymentIds :
        /\ pc[p] = "done"
        /\ faults[p] = 0
        /\ \E r \in LegRows(p, "FUNDING") : r.status = "COMPENSATED"
        /\ Cardinality(FeeRows(p, "FUNDING")) = 1
        /\ \E r \in LegRows(p, "OFFRAMP") : r.status = "FAILED"
        /\ FeeRows(p, "OFFRAMP") = {}

\* C7 (as claimed): the fee rows tagged L are exactly 1 iff the leg record has
\* status COMPLETED and 0 otherwise. Stated for the finished sagas without a
\* redelivery, where no executor is between its writes.
C7_FeeIffCompleted ==
    \A p \in PaymentIds : \A L \in Legs :
        (pc[p] = "done" /\ faults[p] = 0) =>
            Cardinality(FeeRows(p, L)) =
                IF \E r \in LegRows(p, L) : r.status = "COMPLETED" THEN 1 ELSE 0

\* C8: a leg invocation executed more than once for the same payment creates
\* no second leg row and no second fee row of that leg.
C8_RedeliveryIdempotent ==
    \A p \in PaymentIds : \A L \in Legs :
        bodyRuns[p][ActOf(L)] > 1 =>
            /\ Cardinality(LegRows(p, L)) <= 1
            /\ Cardinality(FeeRows(p, L)) <= 1

\* C9: when no invocation is redelivered, a payment has at most one funding,
\* one minting and one offramp row.
C9_OneRowPerLeg ==
    \A p \in PaymentIds :
        faults[p] = 0 => \A L \in Legs : Cardinality(LegRows(p, L)) <= 1

C9_Witness ==
    \E p \in PaymentIds :
        /\ pc[p] = "done"
        /\ faults[p] = 0
        /\ \A L \in Legs : Cardinality(LegRows(p, L)) = 1

\* C10: a fee row tagged L exists only when a leg row of type L of the same
\* payment exists, also between the two writes of an executor and after an
\* attempt was abandoned there: fee rows never outnumber the charged leg rows.
C10_FeeImpliesLeg ==
    \A p \in PaymentIds : \A L \in Legs :
        /\ FeeRows(p, L) # {} => LegRows(p, L) # {}
        /\ Cardinality(FeeRows(p, L)) <= Cardinality(ChargedRows(p, L))

C10_Witness ==
    \E p \in PaymentIds :
        /\ orphans[p]["FUNDING"] > 0
        /\ apos[p]["offramp"] = "leg"
        /\ FeeRows(p, "FUNDING") # {}

\* C11: the status of a funding row only ever moves from COMPLETED to
\* COMPENSATED: no step deletes a funding row, turns a COMPENSATED row back
\* to COMPLETED, or makes a FAILED row COMPENSATED.
C11_FundingStatusForward ==
    [][ \A r \in funding :
            \E r2 \in funding' :
                /\ r2.id = r.id
                /\ \/ r2.status = r.status
                   \/ r.status = "COMPLETED" /\ r2.status = "COMPENSATED" ]_vars

C11_Witness ==
    \E p \in PaymentIds :
        /\ bodyRuns[p]["compensateFunding"] > 1
        /\ \E r \in LegRows(p, "FUNDING") : r.status = "COMPENSATED"

\* C12: a run of the compensation handler changes nothing but the status of
\* the funding row it was given: fee rows (the funding fee of the refunded
\* payment included), minting rows, offramp rows, payment rows and every
\* other funding row are as they were before it.
C12_CompensationFrame ==
    [][ \A p \in PaymentIds :
            bodyRuns'[p]["compensateFunding"] # bodyRuns[p]["compensateFunding"] =>
                LET id == aarg[p]["compensateFunding"].fundingId
                IN  /\ fees' = fees
                    /\ minting' = minting
                    /\ offramp' = offramp
                    /\ payments' = payments
                    /\ fx_rates' = fx_rates
                    /\ { r \in funding' : r.id # id } = { r \in funding : r.id # id }
                    /\ \A r \in funding : r.id = id =>
                           [ r EXCEPT !.status = "COMPENSATED" ] \in funding' ]_vars

C12_Witness ==
    \E p \in PaymentIds :
        /\ bodyRuns[p]["compensateFunding"] > 0
        /\ \E r \in LegRows(p, "FUNDING") : r.status = "COMPENSATED"
        /\ FeeRows(p, "FUNDING") # {}
        /\ LegRows(p, "MINTING") # {}

\* C13: a payment to a currency without a rate row, not cancelled at the
\* checkpoint and without the minting failure marker, ends with its one
\* funding row COMPENSATED, its one minting row COMPLETED, one offramp row
\* FAILED with converted amount 0 and rate 0, the payment FAILED and no
\* OFFRAMP fee row.
C13_MissingRateOutcome ==
    \A p \in PaymentIds :
        ( /\ pc[p] = "done"
          /\ getFxRate("USD", input[p].destinationCurrency) = NULL
          /\ ~CancelledInTime(p)
          /\ ~includes(p, "fail-mint") ) =>
            /\ Cardinality(LegRows(p, "FUNDING")) = 1
            /\ \A r \in LegRows(p, "FUNDING") : r.status = "COMPENSATED"
            /\ Cardinality(LegRows(p, "MINTING")) = 1
            /\ \A r \in LegRows(p, "MINTING") : r.status = "COMPLETED"
            /\ Cardinality(LegRows(p, "OFFRAMP")) = 1
            /\ \A r \in LegRows(p, "OFFRAMP") :
                   r.status = "FAILED" /\ r.local_amount = 0 /\ r.fx_rate = 0
            /\ payments[p].status = "FAILED"
            /\ FeeRows(p, "OFFRAMP") = {}

\* C14: a payment to a currency with a rate, without a cancellation signal and
\* without the minting failure marker, ends with exactly one funding row
\* COMPLETED, exactly one minting row COMPLETED whose converted amount is the
\* source amount at rate 1, exactly one offramp row COMPLETED, exactly three
\* fee rows tagged FUNDING, MINTING and OFFRAMP, and the payment COMPLETED.
C14_HappyPathOutcome ==
    \A p \in PaymentIds :
        ( /\ pc[p] = "done"
          /\ getFxRate("USD", input[p].destinationCurrency) # NULL
          /\ signals[p] = 0
          /\ ~includes(p, "fail-mint") ) =>
            /\ Cardinality(LegRows(p, "FUNDING")) = 1
            /\ \A r \in LegRows(p, "FUNDING") : r.status = "COMPLETED"
            /\ Cardinality(LegRows(p, "MINTING")) = 1
            /\ \A r \in LegRows(p, "MINTING") :
                   /\ r.status = "COMPLETED"
                   /\ r.usdc_amount = input[p].amountUsd
                   /\ r.usdc_rate = Decimal(1, 0)
            /\ Cardinality(LegRows(p, "OFFRAMP")) = 1
            /\ \A r \in LegRows(p, "OFFRAMP") : r.status = "COMPLETED"
            /\ Cardinality({ f \in fees : f.payment_id = p }) = 3
            /\ \A L \in Legs : Cardinality(FeeRows(p, L)) = 1
            /\ payments[p].status = "COMPLETED"

\* C15: the funding leg is compensated before the payment is marked failed:
\* whenever the payment row is FAILED and the stage is FAILED_MINTING or
\* FAILED_OFFRAMP, the funding row returned by the Funding leg is COMPENSATED.
C15_CompensatedBeforeFailed ==
    \A p \in PaymentIds :
        ( /\ payments[p] # NULL
          /\ payments[p].status = "FAILED"
          /\ stage[p] \in { "FAILED_MINTING", "FAILED_OFFRAMP" } ) =>
            /\ fundingResult[p] # NULL
            /\ fundingRowsById(fundingResult[p].fundingId) # {}
            /\ \A r \in fundingRowsById(fundingResult[p].fundingId) :
                   r.status = "COMPENSATED"

C15_Witness ==
    \E p \in PaymentIds :
        /\ payments[p] # NULL
        /\ payments[p].status = "FAILED"
        /\ stage[p] = "FAILED_OFFRAMP"
        /\ pc[p] = "failOfframp"
        /\ \E r \in fundingRowsById(fundingResult[p].fundingId) : r.status = "COMPENSATED"

\* C16: every started saga eventually leaves its payment row COMPLETED or
\* FAILED, when ready workflow and activity tasks are always run and the
\* scheduler retries activities.
C16_EventuallyTerminal ==
    \A p \in PaymentIds :
        (pc[p] # "none") ~>
            (payments[p] # NULL /\ payments[p].status \in { "COMPLETED", "FAILED" })

\* the stage graph of the orchestrator; NONE is a saga not started yet
StageEdges ==
    { << "NONE", "STARTING" >>,
      << "STARTING", "CREATING_PAYMENT" >>,
      << "CREATING_PAYMENT", "FUNDING_STARTING" >>,
      << "FUNDING_STARTING", "FUNDING_RUNNING" >>,
      << "FUNDING_RUNNING", "FAILED_FUNDING" >>,
      << "FUNDING_RUNNING", "CANCELLED_AFTER_FUNDING" >>,
      << "FUNDING_RUNNING", "MINTING_STARTING" >>,
      << "MINTING_STARTING", "MINTING_RUNNING" >>,
      << "MINTING_RUNNING", "FAILED_MINTING" >>,
      << "MINTING_RUNNING", "OFFRAMP_STARTING" >>,
      << "OFFRAMP_STARTING", "OFFRAMP_RUNNING" >>,
      << "OFFRAMP_RUNNING", "FAILED_OFFRAMP" >>,
      << "OFFRAMP_RUNNING", "COMPLETED" >> }

TerminalStages ==
    { "FAILED_FUNDING", "FAILED_MINTING", "FAILED_OFFRAMP", "CANCELLED_AFTER_FUNDING",
      "COMPLETED" }

\* C18: the stage only moves along the edges of the stage graph; once it is
\* FAILED_FUNDING, FAILED_MINTING, FAILED_OFFRAMP, CANCELLED_AFTER_FUNDING or
\* COMPLETED it never changes again and no leg invocation is scheduled or run.
C18_StageGraph ==
    [][ \A p \in PaymentIds :
            /\ stage'[p] # stage[p] => << stage[p], stage'[p] >> \in StageEdges
            /\ stage[p] \in TerminalStages =>
                   /\ stage'[p] = stage[p]
                   /\ \A L \in Legs :
                          /\ apos'[p][ActOf(L)] = apos[p][ActOf(L)]
                          /\ bodyRuns'[p][ActOf(L)] = bodyRuns[p][ActOf(L)]
                          /\ { r.id : r \in LegRows(p, L) }' =
                                 { r.id : r \in LegRows(p, L) } ]_vars

C18_Witness ==
    \E p \in PaymentIds :
        /\ \/ stage[p] = "FAILED_MINTING" /\ signals[p] > 0
           \/ stage[p] = "CANCELLED_AFTER_FUNDING"
        /\ pc[p] = "done"

\* C20: after a saga ended because of a cancellation signal, its funding row
\* has status COMPENSATED.
C20_CancelCompensatesFunding ==
    \A p \in PaymentIds :
        (pc[p] = "done" /\ stage[p] = "CANCELLED_AFTER_FUNDING" /\ faults[p] = 0) =>
            \A r \in LegRows(p, "FUNDING") : r.status = "COMPENSATED"

\* what a finished saga leaves behind when its worker never crashed, as its
\* inputs, its signals and its deliveries determine it
CrashFreeOutcome(p) ==
    IF CancelledInTime(p)
    THEN /\ stage[p] = "CANCELLED_AFTER_FUNDING"
         /\ payments[p].status = "FAILED"
         /\ Cardinality(LegRows(p, "FUNDING")) = bodyRuns[p]["createFunding"]
         /\ \A r \in LegRows(p, "FUNDING") : r.status = "COMPLETED"
         /\ Cardinality(FeeRows(p, "FUNDING")) + orphans[p]["FUNDING"] =
                bodyRuns[p]["createFunding"]
         /\ \A L \in { "MINTING", "OFFRAMP" } : LegRows(p, L) = {} /\ FeeRows(p, L) = {}
    ELSE Outcome(p) = ExpectedOutcome(p)

\* a resumed worker has the locals its history gives (stage, cancellation
\* flag and reason, leg results), no signal is lost, and the saga ends as its
\* inputs, signals and deliveries determine
ReplayRebuildsLocals ==
    \A p \in PaymentIds :
        /\ pc[p] \notin { "none", "down" } =>
               /\ Memory(p) = Replay(input[p], history[p], InitialMemory)
               /\ cancelRequested[p] = (signals[p] > 0)
        /\ pc[p] = "done" => CrashFreeOutcome(p)

\* C17: a saga whose worker crashes and is resumed from its history ends as
\* the crash-free saga with the same inputs and signals: when the scheduler
\* lost no completion of its own, every leg body ran at most once and there is
\* at most one row and at most one fee row per leg, with the stage and the
\* payment status the inputs and signals determine.
C17_CrashLeavesSameOutcome ==
    \A p \in PaymentIds :
        (pc[p] = "done" /\ faults[p] = 0) =>
            /\ \A L \in Legs :
                   /\ bodyRuns[p][ActOf(L)] <= 1
                   /\ Cardinality(LegRows(p, L)) <= 1
                   /\ Cardinality(FeeRows(p, L)) <= 1
            /\ stage[p] = IF CancelledInTime(p) THEN "CANCELLED_AFTER_FUNDING"
                          ELSE NaturalStage(p)
            /\ payments[p].status = IF stage[p] = "COMPLETED" THEN "COMPLETED" ELSE "FAILED"
            /\ cancelRequested[p] = (signals[p] > 0)

\* C19: answering a status query returns the current stage and cancelRequested
\* flag and changes nothing else: the locals of the workflow (stage, flag,
\* reason, results, the await it stands at), the scheduled invocations and all
\* stored rows are as before, so the saga goes on as without the query.
C19_QueryChangesNothing ==
    [][ \A p \in PaymentIds :
            queryReply'[p] # queryReply[p] =>
                /\ queryReply'[p] =
                       [ stage |-> stage[p], cancelRequested |-> cancelRequested[p] ]
                /\ UNCHANGED << dbVars, wfVars, actVars, histVars, history, crashes >> ]_vars

C19_Witness ==
    \E p \in PaymentIds :
        /\ queryReply[p] = [ stage |-> "MINTING_RUNNING", cancelRequested |-> TRUE ]
        /\ pc[p] = "done"
        /\ stage[p] = "COMPLETED"

\* C21: a cancellation request for an identifier that has no run, or whose run
\* has ended, is answered 404 and changes nothing: neither the cancellation
\* flag or reason, nor any other local of the workflow, nor a scheduled
\* invocation, nor any payment, leg or fee row.
C21_CancelNotFound ==
    [][ \A p \in PaymentIds :
            ( /\ ~Open(p)
              /\ response' # response
              /\ response'.route = "POST /payments/:id/cancel"
              /\ response'.paymentId = p )
            => /\ response'.status = 404
               /\ UNCHANGED << dbVars, wfVars, actVars, histVars, history,
                               crashes, queryReply, requests >> ]_vars

C21_Witness ==
    \E p \in PaymentIds :
        /\ response = Answer("POST /payments/:id/cancel", p, 404)
        /\ pc[p] = "done"
        /\ stage[p] = "COMPLETED"
        /\ ~cancelRequested[p]
        /\ payments[p].status = "COMPLETED"

\* C22: an attempt of the compensation handler whose funding identifier
\* matches no funding row changes no row and is final: the error reaches the
\* saga as a failure, and the scheduler holds no further attempt of the
\* invocation.
C22_UnknownFundingIsFatal ==
    [][ \A p \in PaymentIds :
            ( /\ lastError'[p] = "Funding record not found"
              /\ lastError[p] # "Funding record not found" )
            => /\ UNCHANGED dbVars
               /\ apos'[p]["compensateFunding"] # "sched" ]_vars

\* C23: for a payment whose identifier contains "fail-mint", every execution
\* of the Minting leg records one minting row, FAILED with converted amount 0,
\* and no fee; no MINTING fee row ever exists; once the leg has returned, the
\* saga is in FAILED_MINTING and has invoked the compensation of funding; it
\* ends with the funding row of the funding result COMPENSATED and the payment
\* FAILED; the Offramp leg is never started and no offramp row or OFFRAMP fee
\* row exists.
C23_FailedMinting ==
    /\ [] \A p \in PaymentIds :
            includes(p, "fail-mint") =>
                /\ \A r \in LegRows(p, "MINTING") : r.status = "FAILED" /\ r.usdc_amount = 0
                /\ Cardinality(LegRows(p, "MINTING")) = bodyRuns[p]["mintUsdc"]
                /\ FeeRows(p, "MINTING") = {}
                /\ ~LegStarted(p, "OFFRAMP")
                /\ LegRows(p, "OFFRAMP") = {} /\ FeeRows(p, "OFFRAMP") = {}
                /\ LegReturned(p, "MINTING") =>
                       /\ mintingResult[p].status = "FAILED"
                       /\ mintingResult[p].usdcAmount = 0
                       /\ stage[p] = "FAILED_MINTING"
                       /\ CompensationInvoked(p)
                /\ (pc[p] = "done" /\ LegStarted(p, "MINTING")) =>
                       /\ stage[p] = "FAILED_MINTING"
                       /\ payments[p].status = "FAILED"
                       /\ \A r \in fundingRowsById(fundingResult[p].fundingId) :
                              r.status = "COMPENSATED"
                       /\ fundingRowsById(fundingResult[p].fundingId) # {}
    /\ [][ \A p \in PaymentIds :
               ( includes(p, "fail-mint")
                 /\ bodyRuns'[p]["mintUsdc"] # bodyRuns[p]["mintUsdc"] ) =>
                   /\ \E r \in minting' \ minting :
                          /\ minting' = minting \cup { r }
                          /\ r.payment_id = p
                          /\ r.status = "FAILED" /\ r.usdc_amount = 0
                   /\ UNCHANGED << fees, funding, offramp, payments >> ]_vars

C23_Witness ==
    \E p \in PaymentIds :
        /\ includes(p, "fail-mint")
        /\ pc[p] = "done"
        /\ stage[p] = "FAILED_MINTING"
        /\ Cardinality(LegRows(p, "MINTING")) = 1
        /\ \A r \in LegRows(p, "FUNDING") : r.status = "COMPENSATED"
        /\ payments[p].status = "FAILED"
        /\ result[p].outcome = "FAILED during minting; funding COMPENSATED"

\* C24: when the destination currency has a rate, the Offramp leg returns and
\* records (at the two decimals of the local_amount column) the destination
\* amount bridge amount x rate on a COMPLETED row, and once it has returned
\* there is exactly one OFFRAMP fee row, in the destination currency, whose
\* amount is 0.5% of the destination amount rounded to the decimal places of
\* that currency's minor unit.
C24_OfframpAmounts ==
    \A p \in PaymentIds :
        ( /\ LegReturned(p, "OFFRAMP")
          /\ getFxRate("USD", input[p].destinationCurrency) # NULL ) =>
            LET local == times(mintingResult[p].usdcAmount,
                               getFxRate("USD", input[p].destinationCurrency).rate)
            IN  /\ offrampResult[p].status = "COMPLETED"
                /\ offrampResult[p].localAmount = local
                /\ \A r \in LegRows(p, "OFFRAMP") :
                       /\ r.status = "COMPLETED"
                       /\ r.usdc_amount = mintingResult[p].usdcAmount
                       /\ r.fx_rate = getFxRate("USD", input[p].destinationCurrency).rate
                       /\ r.local_amount = numeric2(local)
                /\ Cardinality(FeeRows(p, "OFFRAMP")) = 1
                /\ \A f \in FeeRows(p, "OFFRAMP") :
                       /\ f.currency = input[p].destinationCurrency
                       /\ f.amount = RoundTo((local * 5) \div 1000,
                                             decimal_places(input[p].destinationCurrency))

\* C25: in every state, a payment that has a funding, minting, offramp or fee
\* row, or a leg invocation handed to the scheduler, has a payment row whose
\* status is no longer CREATED; and as long as the workflow has not got past
\* creating the row and advancing it to IN_PROGRESS (also when these keep
\* failing), no leg is started and no leg or fee row of the payment exists.
C25_PaymentRowFirst ==
    \A p \in PaymentIds :
        /\ ( \E L \in Legs : LegStarted(p, L) \/ LegRows(p, L) # {} \/ FeeRows(p, L) # {} )
           => ( payments[p] # NULL /\ payments[p].status # "CREATED" )
        /\ pc[p] \in { "start", "createPayment", "markInProgress" }
           => \A L \in Legs : ~LegStarted(p, L) /\ LegRows(p, L) = {} /\ FeeRows(p, L) = {}

C25_Witness ==
    \E p \in PaymentIds :
        /\ pc[p] = "funding"
        /\ apos[p]["createFunding"] = "leg"
        /\ LegRows(p, "FUNDING") # {}
        /\ FeeRows(p, "FUNDING") = {}
        /\ payments[p].status = "IN_PROGRESS"

\* C26: each leg consumes the output of the one before it: a minting row exists
\* only beside a funding row of the same payment and records the same source
\* amount; the Offramp leg is invoked only after the Minting leg returned
\* COMPLETED, with the converted amount it returned, which is also the bridge
\* amount on every offramp row and the converted amount of a COMPLETED minting
\* row; it is never invoked with the 0 of a FAILED minting.
C26_LegsChained ==
    \A p \in PaymentIds :
        /\ LegRows(p, "MINTING") # {} => LegRows(p, "FUNDING") # {}
        /\ \A m \in LegRows(p, "MINTING") : \A f \in LegRows(p, "FUNDING") :
               m.usd_amount = f.usd_amount
        /\ LegStarted(p, "OFFRAMP") =>
               /\ LegReturned(p, "MINTING")
               /\ mintingResult[p].status = "COMPLETED"
               /\ aarg[p]["offramp"].usdcAmount = mintingResult[p].usdcAmount
               /\ aarg[p]["offramp"].usdcAmount > 0
        /\ \A o \in LegRows(p, "OFFRAMP") :
               /\ LegStarted(p, "OFFRAMP")
               /\ o.usdc_amount = mintingResult[p].usdcAmount
               /\ \E m \in LegRows(p, "MINTING") :
                      m.status = "COMPLETED" /\ m.usdc_amount = o.usdc_amount

C26_Witness ==
    \E p \in PaymentIds :
        /\ pc[p] = "done"
        /\ \E f \in LegRows(p, "FUNDING") : \E m \in LegRows(p, "MINTING") :
               \E o \in LegRows(p, "OFFRAMP") :
                   /\ m.usd_amount = f.usd_amount
                   /\ o.usdc_amount = m.usdc_amount
                   /\ o.status = "COMPLETED"

\* C27: the Funding leg only ever reports COMPLETED: every funding row is
\* created COMPLETED (it is COMPLETED or, after compensation, COMPENSATED, and
\* never FAILED), the funding result the saga holds is COMPLETED, and the saga
\* never enters stage FAILED_FUNDING nor returns the funding failure outcome.
C27_FundingNeverFails ==
    /\ [] \A p \in PaymentIds :
            /\ \A r \in LegRows(p, "FUNDING") : r.status \in { "COMPLETED", "COMPENSATED" }
            /\ ares[p]["createFunding"] # NULL => ares[p]["createFunding"].status = "COMPLETED"
            /\ LegReturned(p, "FUNDING") => fundingResult[p].status = "COMPLETED"
            /\ stage[p] # "FAILED_FUNDING"
            /\ pc[p] # "failFunding"
            /\ result[p] # NULL =>
                   result[p].outcome # "FAILED during funding child workflow"
    /\ [][ \A r \in funding' :
               r.id \notin { q.id : q \in funding } => r.status = "COMPLETED" ]_vars

C27_Witness ==
    \E p \in PaymentIds :
        /\ pc[p] = "done"
        /\ faults[p] > 0
        /\ fundingResult[p].status = "COMPLETED"
        /\ Cardinality(LegRows(p, "FUNDING")) = 2
        /\ \E r \in LegRows(p, "FUNDING") : r.status = "COMPENSATED"
        /\ \E r \in LegRows(p, "FUNDING") : r.status = "COMPLETED"

\* C28: a cancellation signal handled in stage STARTING, CREATING_PAYMENT,
\* FUNDING_STARTING or FUNDING_RUNNING interrupts nothing: the step that
\* handles it changes no await, stage, scheduled invocation or row; the saga
\* reaches CANCELLED_AFTER_FUNDING only with the funding result in hand, a
\* funding row and a FUNDING fee row written; it ends there and nowhere else.
C28_CancelIsNoInterrupt ==
    /\ [] \A p \in PaymentIds :
            CancelledInTime(p) =>
                /\ stage[p] \in PreCheckpoint \cup { "CANCELLED_AFTER_FUNDING" }
                /\ stage[p] = "CANCELLED_AFTER_FUNDING" =>
                       /\ LegReturned(p, "FUNDING")
                       /\ fundingResult[p].status = "COMPLETED"
                       /\ fundingRowsById(fundingResult[p].fundingId) # {}
                       /\ FeeRows(p, "FUNDING") # {}
                /\ pc[p] = "done" => stage[p] = "CANCELLED_AFTER_FUNDING"
    /\ [][ \A p \in PaymentIds :
               signals'[p] # signals[p] =>
                   UNCHANGED << pc, stage, actVars, dbVars, fundingResult >> ]_vars

C28_Witness ==
    \E p \in PaymentIds :
        /\ signalledAt[p] = { "STARTING" }
        /\ pc[p] = "done"
        /\ stage[p] = "CANCELLED_AFTER_FUNDING"
        /\ Cardinality(LegRows(p, "FUNDING")) = 1
        /\ Cardinality(FeeRows(p, "FUNDING")) = 1
        /\ \A r \in LegRows(p, "FUNDING") : r.status = "COMPLETED"

\* C29: any two requests answered 202 that supplied no identifier of their own
\* were given different payment identifiers.
C29_GeneratedIdsUnique ==
    \A i \in DOMAIN requests : \A j \in DOMAIN requests :
        ( i # j /\ ~requests[i].supplied /\ ~requests[j].supplied ) =>
            requests[i].paymentId # requests[j].paymentId

\* the requests answered 202 so far that ended up with identifier p
Accepted(p) == Cardinality({ i \in DOMAIN requests : requests[i].paymentId = p })

\* the stored rows of payment p
RowsOf(p) ==
    << payments[p], [ L \in Legs |-> LegRows(p, L) ], [ L \in Legs |-> FeeRows(p, L) ] >>

\* C30: a second request with an identifier that was already used adds
\* nothing to that payment: while the first saga runs the request is refused
\* and changes nothing; after the saga has ended, the run the request starts
\* never gets past creating the payment row, so from the second request on the
\* payment row, its status and the leg and fee rows of the payment stay as the
\* first saga left them.
C30_UsedIdentifierAddsNothing ==
    /\ [] \A p \in PaymentIds :
            Accepted(p) >= 2 =>
                /\ pc[p] \in { "start", "createPayment" }
                /\ \A L \in Legs : ~LegStarted(p, L)
                /\ payments[p] # NULL /\ payments[p].status \in { "COMPLETED", "FAILED" }
                /\ \A L \in Legs : Cardinality(LegRows(p, L)) <= 1
                /\ \A L \in Legs : Cardinality(FeeRows(p, L)) <= 1
    /\ [][ \A p \in PaymentIds : Accepted(p)' >= 2 => RowsOf(p)' = RowsOf(p) ]_vars
    /\ [][ ( response' # response /\ response'.status = 500 )
               => UNCHANGED << dbVars, wfVars, actVars, requests >> ]_vars

C30_Witness ==
    \E p \in PaymentIds :
        /\ Accepted(p) = 2
        /\ requests[2].supplied
        /\ lastError[p] = "duplicate key"
        /\ payments[p].status = "COMPLETED"
        /\ \A L \in Legs : Cardinality(LegRows(p, L)) = 1 /\ Cardinality(FeeRows(p, L)) = 1

\* what belongs to the saga of payment q: its rows, the locals of its workflow
\* and its scheduled invocations
SagaOf(q) ==
    << RowsOf(q), input[q], pc[q], stage[q], cancelRequested[q], cancelReason[q],
       fundingResult[q], mintingResult[q], offrampResult[q], result[q],
       apos[q], aarg[q], ares[q], lastError[q], nextId[q] >>

\* the rows of every table that do not carry the payment identifier p
RowsNotOf(p) ==
    << { r \in funding : r.payment_id # p }, { r \in minting : r.payment_id # p },
       { r \in offramp : r.payment_id # p }, { f \in fees : f.payment_id # p },
       [ q \in PaymentIds \ { p } |-> payments[q] ] >>

\* C31: sagas of distinct payments are independent under any interleaving:
\* every step (of the saga, a leg executor, the compensation, or a
\* cancellation signal) is the step of one payment p and changes only rows
\* whose payment identifier is p and only p's stage, flag and other locals;
\* the rate table is never written; and every saga ends as its own inputs and
\* its own signals determine, whatever was sent to the other saga.
C31_SagasIndependent ==
    /\ [][ \E p \in PaymentIds :
               /\ RowsNotOf(p)' = RowsNotOf(p)
               /\ fx_rates' = fx_rates
               /\ \A q \in PaymentIds \ { p } : SagaOf(q)' = SagaOf(q) ]_vars
    /\ [] \A q \in PaymentIds : pc[q] = "done" => CrashFreeOutcome(q)

C31_Witness ==
    \E p \in PaymentIds, q \in PaymentIds :
        /\ p # q
        /\ pc[p] = "funding" /\ cancelRequested[p] /\ signals[p] > 0
        /\ pc[q] = "compensateMint" /\ apos[q]["compensateFunding"] = "done"
        /\ signals[q] = 0 /\ ~cancelRequested[q]
        /\ \E r \in LegRows(q, "FUNDING") : r.status = "COMPENSATED"
        /\ \E r \in LegRows(p, "FUNDING") : r.status = "COMPLETED"

\* C32: after a saga ended in FAILED_MINTING or FAILED_OFFRAMP no funding row
\* of the payment has status COMPLETED: every funding row of the payment is
\* COMPENSATED, also when the Funding leg invocation was delivered more than
\* once.
C32_NoFundingLeftCompleted ==
    \A p \in PaymentIds :
        (pc[p] = "done" /\ stage[p] \in { "FAILED_MINTING", "FAILED_OFFRAMP" }) =>
            /\ LegRows(p, "FUNDING") # {}
            /\ \A r \in LegRows(p, "FUNDING") : r.status = "COMPENSATED"

\* C33: the payment row is COMPLETED only on full success: whenever it is
\* COMPLETED the payment has a funding row COMPLETED and none COMPENSATED, a
\* minting row COMPLETED and an offramp row COMPLETED, every leg returned
\* COMPLETED to the saga, and the compensation handler was never invoked nor
\* run for the payment.
C33_CompletedOnlyOnSuccess ==
    \A p \in PaymentIds :
        (payments[p] # NULL /\ payments[p].status = "COMPLETED") =>
            /\ \E r \in LegRows(p, "FUNDING") : r.status = "COMPLETED"
            /\ \A r \in LegRows(p, "FUNDING") : r.status # "COMPENSATED"
            /\ \E r \in LegRows(p, "MINTING") : r.status = "COMPLETED"
            /\ \E r \in LegRows(p, "OFFRAMP") : r.status = "COMPLETED"
            /\ \A L \in Legs : LegReturned(p, L) /\ legResult(p, L).status = "COMPLETED"
            /\ ~CompensationInvoked(p)
            /\ bodyRuns[p]["compensateFunding"] = 0

C33_Witness ==
    \E p \in PaymentIds :
        /\ payments[p] # NULL /\ payments[p].status = "COMPLETED"
        /\ pc[p] = "complete"
        /\ signals[p] > 0
        /\ bodyRuns[p]["offramp"] = 2
        /\ Cardinality(LegRows(p, "OFFRAMP")) = 2

\* the signals delivered to the workflow of p so far, as positions of its history
SignalsOf(p) == { i \in DOMAIN history[p] : history[p][i].type = "signal" }

\* the reason the last delivered signal carried
LastReason(p) ==
    history[p][CHOOSE i \in SignalsOf(p) : \A j \in SignalsOf(p) : j <= i].reason

\* ` (reason: ${cancelReason})` when the reason is there, nothing otherwise
Shown(reason) == IF reason \notin { NoReason, "" } THEN reason ELSE ""

\* C34: the cancellation flag is monotone and the reason is that of the
\* latest signal: once a signal was handled the flag is true and stays true
\* to the end of the saga, the reason held is the one the last signal
\* carried, and the cancelled outcome shows that reason (none when the last
\* signal carried none).
C34_FlagMonotoneLastReason ==
    /\ [][ \A p \in PaymentIds : cancelRequested[p] => cancelRequested'[p] ]_vars
    /\ [] \A p \in PaymentIds :
            /\ cancelRequested[p] = (SignalsOf(p) # {})
            /\ SignalsOf(p) # {} => cancelReason[p] = LastReason(p)
            /\ (pc[p] = "done" /\ stage[p] = "CANCELLED_AFTER_FUNDING") =>
                   /\ result[p].outcome = "CANCELLED after funding"
                   /\ result[p].extra = Shown(LastReason(p))

C34_Witness ==
    \E p \in PaymentIds :
        /\ pc[p] = "done" /\ stage[p] = "CANCELLED_AFTER_FUNDING"
        /\ Cardinality(SignalsOf(p)) = 2
        /\ signalledAt[p] \subseteq PreCheckpoint
        /\ \E i \in SignalsOf(p) : history[p][i].reason = "test-cancel"
        /\ LastReason(p) = NoReason
        /\ result[p].extra = ""

\* stages in which the saga has marked, or is about to mark, the payment failed
FailedStages ==
    { "FAILED_FUNDING", "CANCELLED_AFTER_FUNDING", "FAILED_MINTING", "FAILED_OFFRAMP" }

\* C35: the persisted payment status never runs ahead of the orchestrator
\* stage: whenever the payment row is COMPLETED the stage of the payment's
\* orchestrator is COMPLETED, and whenever the row is FAILED the stage is
\* FAILED_FUNDING, CANCELLED_AFTER_FUNDING, FAILED_MINTING or FAILED_OFFRAMP.
C35_StatusNotAheadOfStage ==
    \A p \in PaymentIds :
        payments[p] # NULL =>
            /\ payments[p].status = "COMPLETED" => stage[p] = "COMPLETED"
            /\ payments[p].status = "FAILED" => stage[p] \in FailedStages

\* the status update of p is pending for an identifier that has no payment row
UpdateOfUnknown(p) ==
    /\ Runnable(p, "updatePaymentStatus", "sched")
    /\ payments[aarg[p]["updatePaymentStatus"].id] = NULL

\* C36: a status update for a payment identifier that has no payment row fails
\* with the error 'Payment <id> not found' and changes no row; it never returns
\* as a success, and the saga that awaits it does not go on as if the status
\* had been set.
C36_UnknownPaymentIsReported ==
    /\ [][ \A p \in PaymentIds :
               UpdateOfUnknown(p) =>
                   /\ UNCHANGED dbVars
                   /\ bodyRuns'[p]["updatePaymentStatus"] = bodyRuns[p]["updatePaymentStatus"]
                   /\ apos'[p]["updatePaymentStatus"] = "sched"
                   /\ pc'[p] = pc[p] /\ stage'[p] = stage[p] /\ result'[p] = result[p]
                   /\ lastError'[p] # lastError[p] => lastError'[p] = "Payment not found" ]_vars
    /\ [] \A p \in PaymentIds :
            /\ lastError[p] = "Payment not found" => UpdateOfUnknown(p)
            /\ apos[p]["updatePaymentStatus"] = "done" =>
                   LET params == aarg[p]["updatePaymentStatus"]
                   IN  payments[params.id] # NULL /\ payments[params.id].status = params.status

C36_Witness ==
    \E p \in PaymentIds :
        /\ lastError[p] = "Payment not found"
        /\ aarg[p]["updatePaymentStatus"].status = "COMPLETED"
        /\ payments[p] # NULL /\ payments[p].status = "IN_PROGRESS"
        /\ \A q \in PaymentIds \ { p } : payments[q] = NULL

\* the rows the import selected from its file, one per description
Selected == latestByDesc(importer.data, << >>)

\* the rate row a selected row of the file is written as, NULL without a code
RateRowOf(row) ==
    IF descToCodeMap(row.country_currency_desc) = NoCode THEN NULL
    ELSE [ base_currency |-> "USD",
           quote_currency |-> descToCodeMap(row.country_currency_desc),
           rate |-> Decimal(row.exchange_rate[1], row.exchange_rate[2]),
           as_of |-> row.effective_date ]

\* the table an import of the selected rows makes of the table before it
ImportedTable(before) ==
    LET new == { RateRowOf(Selected[k]) : k \in DOMAIN Selected }
    IN  { r \in before : \A n \in new : n.quote_currency # r.quote_currency } \cup new

\* C37: the bulk import of exchange rates is all-or-nothing: the rate table
\* changes in the commit step only, which makes every selected rate the rate
\* of its pair and leaves the other pairs as they were; an import in which a
\* row fails (a description without mapping entry, or a statement that fails)
\* never commits, ends rolled back with exit code 1 and leaves the table as it
\* was before; the table holds at most one rate per (base, quote) pair.
C37_ImportAllOrNothing ==
    /\ [][ fx_rates' # fx_rates =>
               /\ importer.pc = "tx" /\ importer'.pc = "committed"
               /\ fx_rates' = ImportedTable(fx_rates) ]_vars
    /\ [][ importer.pc \in { "rolledback", "committed" } =>
               UNCHANGED << fx_rates, importer >> ]_vars
    /\ [] ( /\ importer.pc = "rolledback" => importer.exitCode = 1
            /\ importer.pc = "committed" =>
                   /\ importer.exitCode = 0
                   /\ \A k \in DOMAIN Selected :
                          /\ descToCodeMap(Selected[k].country_currency_desc) # NoCode
                          /\ RateRowOf(Selected[k]) \in fx_rates
            /\ \A r1 \in fx_rates : \A r2 \in fx_rates :
                   ( r1.base_currency = r2.base_currency
                     /\ r1.quote_currency = r2.quote_currency ) => r1 = r2 )

C37_Witness ==
    /\ importer.pc = "rolledback"
    /\ Len(Selected) = 3
    /\ Selected[1].country_currency_desc = "Mexico-Peso"
    /\ Selected[1].exchange_rate = << 147, 265 >>
    /\ Selected[3].country_currency_desc = "Atlantis-Crown"
    /\ Len(importer.todo) = 1
    /\ fx_rates = { [ base_currency |-> "USD", quote_currency |-> "MXN",
                      rate |-> Decimal(18, 344), as_of |-> << 2025, 9, 30 >> ] }

\* the day a date string names, counted from a fixed origin
DayOf(str) == str[1] * 372 + str[2] * 31 + str[3]

\* the rows of the file with description desc, as positions
RowsOfDesc(data, desc) == { i \in DOMAIN data : data[i].country_currency_desc = desc }

\* the first row of the file among those of desc with the greatest date
FirstLatest(data, desc) ==
    LET latest == { i \in RowsOfDesc(data, desc) :
                      \A j \in RowsOfDesc(data, desc) :
                          DayOf(data[j].effective_date) <= DayOf(data[i].effective_date) }
    IN  data[CHOOSE i \in latest : \A j \in latest : i <= j]

\* no two rows of one description carry the same date
NoTies(data) ==
    \A i \in DOMAIN data : \A j \in DOMAIN data :
        ( i # j /\ data[i].country_currency_desc = data[j].country_currency_desc ) =>
            data[i].effective_date # data[j].effective_date

\* C38: for every description of the file the row the import selects and
\* writes is the first one among the rows of that description with the
\* greatest effective date; nothing else is selected; and when no two rows of
\* a description carry the same date the selection is the same for every
\* order of the rows.
C38_LatestRatePerDescription ==
    importer.pc # "idle" =>
        LET data == importer.data
            descs == { data[i].country_currency_desc : i \in DOMAIN data }
            chosen == { FirstLatest(data, d) : d \in descs }
            left == { importer.todo[k] : k \in DOMAIN importer.todo }
        IN  /\ { Selected[k] : k \in DOMAIN Selected } = chosen
            /\ Len(Selected) = Cardinality(descs)
            /\ importer.pc = "tx" =>
                   /\ left \subseteq chosen
                   /\ \A row \in chosen \ left : RateRowOf(row) \in importer.table
            /\ importer.pc = "committed" =>
                   \A row \in chosen : RateRowOf(row) \in fx_rates
            /\ NoTies(data) =>
                   \A f \in Permutations(DOMAIN data) :
                       LET shuffled == [ i \in DOMAIN data |-> data[f[i]] ]
                           again == latestByDesc(shuffled, << >>)
                       IN  { again[k] : k \in DOMAIN again } = chosen

C38_Witness ==
    /\ importer.pc = "committed"
    /\ Len(importer.data) = 3
    /\ \A i \in 1 .. 3 : importer.data[i].country_currency_desc = "Mexico-Peso"
    /\ importer.data[1].effective_date = << 2025, 9, 30 >>
    /\ importer.data[1].exchange_rate = << 147, 265 >>
    /\ importer.data[2].effective_date = << 2024, 12, 31 >>
    /\ importer.data[3].effective_date = << 2025, 9, 30 >>
    /\ importer.data[3].exchange_rate = << 18, 344 >>
    /\ fx_rates = { [ base_currency |-> "USD", quote_currency |-> "MXN",
                      rate |-> Decimal(147, 265), as_of |-> << 2025, 9, 30 >> ] }

====
